---- MODULE Spec2Model ----
(***************************************************************************)
(* LakeSoul metadata client (rust/lakesoul-metadata/src/metadata_client.rs) *)
(* as a state machine: a shared backing store, client instances holding a  *)
(* connection lock and a statement-cache lock, and tasks that run the      *)
(* client's public operations one DAO attempt at a time.                   *)
(***************************************************************************)
EXTENDS Integers, Sequences, FiniteSets, TLC

\* ------------------------------------------------------------------ bounds
\* max_retry of the client under test is drawn from 0..MaxRetryBound.
MaxRetryBound == 2
\* Transient DAO failures injected in one run, of one task and of two.
MaxFail == 2
MaxConcFail == 1
\* Public operations a task starts in one run, alone and beside another task.
MaxOps == 2
MaxConcOps == 1
\* The longest query result, in bytes, and the export calls made on one handle.
MaxBytes == 2
MaxExports == 3

Tasks == {"ta", "tb"}
Clients == {"c1", "c2"}
NoTask == "none"

\* ------------------------------------------------------------ entity values
\* entity::CommitOp: the closed enumeration behind the commit_op integers.
CommitOpValues ==
  [CompactionCommit |-> 0, AppendCommit |-> 1, MergeCommit |-> 2,
   UpdateCommit |-> 3, DeleteCommit |-> 4]

CommitOpNames ==
  {"CompactionCommit", "AppendCommit", "MergeCommit", "UpdateCommit", "DeleteCommit"}

\* CommitOp::from_i32: Some(variant) for a value of the enumeration, else None.
CommitOpFromI32(i) ==
  IF \E n \in CommitOpNames : CommitOpValues[n] = i
    THEN [some |-> TRUE, op |-> CHOOSE n \in CommitOpNames : CommitOpValues[n] = i]
    ELSE [some |-> FALSE, op |-> ""]

\* `commit_op as i32`
CommitOpAsI32(op) == CommitOpValues[op]

Uuid(h, l) == [high |-> h, low |-> l]

\* uuid::Uuid::from_u64_pair(high, low).to_string(): the canonical text of the
\* 128-bit value, here the pair of its halves.
UuidToString(c) == <<"uuid", c.high, c.low>>

RECURSIVE JoinCommitIds(_)
\* format!("{:0>16x}{:0>16x}", high, low) of each snapshot entry, joined by "":
\* one fixed-width chunk per half, in snapshot order.
JoinCommitIds(snapshot) ==
  IF snapshot = <<>> THEN <<>>
  ELSE <<Head(snapshot).high, Head(snapshot).low>> \o JoinCommitIds(Tail(snapshot))

\* format!("{}={}", k, v)
FormatFilter(kv) == kv[1] \o "=" \o kv[2]

\* get_table_domain: a fixed value for every table.
GetTableDomain(table_id) == "public"

TheTable ==
  [table_id |-> "t1", table_name |-> "orders", table_namespace |-> "default",
   table_path |-> "/lake/orders", domain |-> "public", table_schema |-> "schema-1"]

\* table_path_id_from_table_info
TablePathIdFromTableInfo(ti) ==
  [table_path |-> ti.table_path, table_id |-> ti.table_id,
   table_namespace |-> ti.table_namespace, domain |-> ti.domain]

\* table_name_id_from_table_info
TableNameIdFromTableInfo(ti) ==
  [table_name |-> ti.table_name, table_id |-> ti.table_id,
   table_namespace |-> ti.table_namespace, domain |-> ti.domain]

\* JniWrapper: one repeated field per entity kind.
EmptyWrapper ==
  [table_info |-> <<>>, table_name_id |-> <<>>, table_path_id |-> <<>>,
   partition_info |-> <<>>, data_commit_info |-> <<>>]

\* PartitionInfo { ..Default::default() } with the fields the client sets.
PartitionInfoRec(table_id, desc, version, snapshot, domain, cop, expr) ==
  [table_id |-> table_id, partition_desc |-> desc, version |-> version,
   snapshot |-> snapshot, domain |-> domain, commit_op |-> cop, expression |-> expr]

RECURSIVE SeqMap(_, _)
SeqMap(F(_), s) == IF s = <<>> THEN <<>> ELSE <<F(Head(s))>> \o SeqMap(F, Tail(s))

RECURSIVE Flatten(_)
Flatten(ss) == IF ss = <<>> THEN <<>> ELSE Head(ss) \o Flatten(Tail(ss))

Range(s) == {s[i] : i \in DOMAIN s}

\* ----------------------------------------------------- the DAO layer (store)
EmptyDb ==
  [table_info |-> <<>>, table_name_id |-> <<>>, table_path_id |-> <<>>,
   partition_info |-> <<>>, data_commit_info |-> <<>>]

\* The store after an earlier create_table(TheTable).
TableDb ==
  [EmptyDb EXCEPT !.table_info = <<TheTable>>,
                  !.table_name_id = <<TableNameIdFromTableInfo(TheTable)>>,
                  !.table_path_id = <<TablePathIdFromTableInfo(TheTable)>>]

SameKey(p, q) == p.table_id = q.table_id /\ p.partition_desc = q.partition_desc

RECURSIVE UpsertAll(_, _)
\* One record per (table id, partition descriptor): a write replaces the stored
\* record in place, a new descriptor is added after the existing ones.
UpsertAll(store, list) ==
  IF list = <<>> THEN store
  ELSE LET p == Head(list)
           next == IF \E i \in DOMAIN store : SameKey(store[i], p)
                     THEN [i \in DOMAIN store |->
                             IF SameKey(store[i], p) THEN p ELSE store[i]]
                     ELSE Append(store, p)
       IN UpsertAll(next, Tail(list))

\* Whether the store takes the insert: unique indices reject a second row, and
\* one transactional insert cannot hold two records for one key.
DaoInsertAccepts(type, w, d) ==
  CASE type = "InsertTableInfo" ->
         \A r \in Range(w.table_info) :
           \A s \in Range(d.table_info) : s.table_id # r.table_id
    [] type = "InsertTableNameId" ->
         \A r \in Range(w.table_name_id) :
           \A s \in Range(d.table_name_id) :
             ~(s.table_name = r.table_name /\ s.table_namespace = r.table_namespace)
    [] type = "InsertTablePathId" ->
         \A r \in Range(w.table_path_id) :
           \A s \in Range(d.table_path_id) : s.table_path # r.table_path
    [] type = "TransactionInsertPartitionInfo" ->
         \A i, j \in DOMAIN w.partition_info :
           i # j => ~SameKey(w.partition_info[i], w.partition_info[j])
    [] OTHER -> TRUE

\* The store after the insert.
DaoInsertApply(type, w, d) ==
  CASE type = "InsertTableInfo" ->
         [d EXCEPT !.table_info = @ \o w.table_info]
    [] type = "InsertTableNameId" ->
         [d EXCEPT !.table_name_id = @ \o w.table_name_id]
    [] type = "InsertTablePathId" ->
         [d EXCEPT !.table_path_id = @ \o w.table_path_id]
    [] type = "InsertDataCommitInfo" ->
         [d EXCEPT !.data_commit_info = @ \o w.data_commit_info]
    [] type = "TransactionInsertPartitionInfo" ->
         [d EXCEPT !.partition_info = UpsertAll(@, w.partition_info)]
    [] OTHER -> d

\* The row count an insert returns.
DaoInsertCount(type, w) ==
  Len(w.table_info) + Len(w.table_name_id) + Len(w.table_path_id)
    + Len(w.partition_info) + Len(w.data_commit_info)

RECURSIVE Chunks(_)
\* The commit list of a query argument, split back into identifiers.
Chunks(joined) ==
  IF Len(joined) < 2 THEN <<>>
  ELSE <<Uuid(joined[1], joined[2])>> \o Chunks(SubSeq(joined, 3, Len(joined)))

RECURSIVE Dedup(_)
Dedup(s) ==
  IF s = <<>> THEN <<>>
  ELSE LET r == Dedup(SubSeq(s, 1, Len(s) - 1))
       IN IF s[Len(s)] \in Range(r) THEN r ELSE Append(r, s[Len(s)])

\* The result envelope of a query.
DaoQueryRows(type, arg, d) ==
  CASE type = "SelectTableInfoByTableNameAndNameSpace" ->
         [EmptyWrapper EXCEPT !.table_info =
            SelectSeq(d.table_info,
              LAMBDA r : r.table_name = arg[1] /\ r.table_namespace = arg[2])]
    [] type = "SelectTableNameIdByTableName" ->
         [EmptyWrapper EXCEPT !.table_name_id =
            SelectSeq(d.table_name_id,
              LAMBDA r : r.table_name = arg[1] /\ r.table_namespace = arg[2])]
    [] type = "SelectTableInfoByTableId" ->
         [EmptyWrapper EXCEPT !.table_info =
            SelectSeq(d.table_info, LAMBDA r : r.table_id = arg[1])]
    [] type = "ListPartitionByTableId" ->
         [EmptyWrapper EXCEPT !.partition_info =
            SelectSeq(d.partition_info, LAMBDA r : r.table_id = arg[1])]
    [] type = "ListPartitionDescByTableIdAndParList" ->
         [EmptyWrapper EXCEPT !.partition_info =
            SelectSeq(d.partition_info,
              LAMBDA r : r.table_id = arg[1] /\ r.partition_desc \in Range(arg[2]))]
    [] type = "SelectOneDataCommitInfoByTableIdAndPartitionDescAndCommitId" ->
         [EmptyWrapper EXCEPT !.data_commit_info =
            SelectSeq(d.data_commit_info,
              LAMBDA r : r.table_id = arg[1] /\ r.partition_desc = arg[2]
                         /\ UuidToString(r.commit_id) = arg[3])]
    [] type = "ListDataCommitInfoByTableIdAndPartitionDescAndCommitList" ->
         [EmptyWrapper EXCEPT !.data_commit_info =
            Flatten(SeqMap(
              LAMBDA c : SelectSeq(d.data_commit_info,
                           LAMBDA r : r.table_id = arg[1] /\ r.partition_desc = arg[2]
                                      /\ r.commit_id = c),
              Dedup(Chunks(arg[3]))))]
    [] OTHER -> EmptyWrapper

\* The serialized envelope a query returns, and JniWrapper::decode of it.
EncodeWrapper(w) == [magic |-> "JniWrapper", body |-> w]
DecodeWrapper(bytes) ==
  IF bytes.magic = "JniWrapper"
    THEN [status |-> "Ok", val |-> bytes.body, err |-> <<>>]
    ELSE [status |-> "Err", val |-> <<>>,
          err |-> [kind |-> "DecodeError", at |-> 0, msg |-> ""]]

\* ------------------------------------------------------------------ inputs
C1id == Uuid(0, 1)
C2id == Uuid(1, 0)

FileOps(paths) == SeqMap(LAMBDA p : [path |-> p, file_op |-> "add"], paths)

DataCommitInfoRec(desc, cid, cop, committed, paths) ==
  [table_id |-> "t1", partition_desc |-> desc, commit_id |-> cid,
   file_ops |-> FileOps(paths), commit_op |-> cop, committed |-> committed]

\* The DataCommitInfo values callers pass: two for one commit identifier, and the
\* last two with a commit_op the fold does not handle and an integer outside the
\* enumeration.
DataCommitInputs ==
  { DataCommitInfoRec("p=1", C1id, 1, FALSE, <<"a/1">>),
    DataCommitInfoRec("p=1", C1id, 1, TRUE, <<"a/2">>),
    DataCommitInfoRec("p=2", C2id, 2, TRUE, <<"b/1", "b/2">>),
    DataCommitInfoRec("p=1", C2id, 3, FALSE, <<"c/1">>),
    DataCommitInfoRec("p=2", C1id, 7, FALSE, <<"d/1">>) }

\* An incoming partition entry of a MetaInfo.
Entry(desc, snapshot, expr) ==
  PartitionInfoRec("t1", desc, 0, snapshot, "public", 0, expr)

MetaInfoRec(list) == [table_info |-> TheTable, list_partition |-> list]

CommitDataInputs ==
  { [meta |-> MetaInfoRec(<<Entry("p=1", <<C1id>>, "")>>), op |-> "AppendCommit"],
    [meta |-> MetaInfoRec(<<Entry("p=1", <<C2id>>, "x > 0"),
                            Entry("p=2", <<C1id, C2id>>, "")>>),
     op |-> "MergeCommit"],
    [meta |-> MetaInfoRec(<<Entry("p=2", <<C1id>>, ""), Entry("p=2", <<C2id>>, "")>>),
     op |-> "AppendCommit"],
    [meta |-> MetaInfoRec(<<Entry("p=2", <<C2id>>, "")>>), op |-> "UpdateCommit"] }

SingleLookupInputs ==
  { [table_id |-> "t1", partition_desc |-> "p=1", commit_id |-> UuidToString(C1id)],
    [table_id |-> "t1", partition_desc |-> "p=2", commit_id |-> UuidToString(C1id)] }

\* The arguments callers pass, per operation.
AllInputs ==
  [commit_data |-> CommitDataInputs,
   commit_data_commit_info |-> DataCommitInputs,
   single |-> SingleLookupInputs,
   by_name |-> {"orders", "ghost"},
   schema |-> {"orders"},
   data_files |-> {[table_name |-> "orders", partitions |-> <<>>],
                   [table_name |-> "orders", partitions |-> << <<"p", "1">> >>]}]

\* The arguments of the runs of two tasks: the commits that fold.
CoreInputs ==
  [commit_data |-> {a \in CommitDataInputs :
                      /\ a.op \in {"AppendCommit", "MergeCommit"}
                      /\ a.meta.list_partition[1].partition_desc = "p=1"},
   commit_data_commit_info |-> {d \in DataCommitInputs : d.commit_op \in {1, 2}},
   single |-> {a \in SingleLookupInputs : a.partition_desc = "p=1"},
   by_name |-> {"orders"},
   schema |-> {"orders"},
   data_files |-> {[table_name |-> "orders", partitions |-> << <<"p", "1">> >>]}]

\* The arguments of the runs that are checked for progress: one per operation.
LiveInputs ==
  [CoreInputs EXCEPT
     !.commit_data = {a \in @ : a.op = "AppendCommit"},
     !.commit_data_commit_info = {d \in @ : d.commit_op = 1 /\ ~d.committed}]

\* ------------------------------------------------------------------- state
VARIABLES
  max_retry,     \* MetaDataClient.max_retry
  clientOf,      \* the client instance each task calls
  clientLock,    \* MetaDataClient.client: the task holding each client's connection
  preparedLock,  \* MetaDataClient.prepared: the task holding each statement cache
  db,            \* the backing store behind the DAO layer
  pc,            \* where each task stands in its operation
  loc,           \* the operation's arguments and locals
  call,          \* the execute_insert / execute_query call in progress
  result,        \* what the task's last finished operation returned
  prev,          \* what the operation before that returned
  hist,          \* the DAO attempts of the current operation, in order
  pre,           \* the store when the current operation started
  fails,         \* transient DAO failures the run may still see
  left,          \* operations each task may still start
  inputs,        \* the arguments the run's callers pass
  ffi            \* the query result handle of the foreign-function layer

vars ==
  <<max_retry, clientOf, clientLock, preparedLock, db, pc, loc, call, result,
    prev, hist, pre, fails, left, inputs, ffi>>

NoErr == [kind |-> "", at |-> 0, msg |-> ""]
NoRet == [status |-> "None", val |-> <<>>, err |-> NoErr]
Ok(v) == [status |-> "Ok", val |-> v, err |-> NoErr]
Err(e) == [status |-> "Err", val |-> <<>>, err |-> e]
Panic(what) ==
  [status |-> "Panic", val |-> <<>>, err |-> [kind |-> "panic", at |-> 0, msg |-> what]]

NoCall ==
  [state |-> "none", kind |-> "", type |-> "", arg |-> <<>>, times |-> 0,
   no |-> 0, ret |-> NoRet]

NoLoc ==
  [op |-> "", arg |-> <<>>, meta |-> <<>>, cop |-> "", cur |-> <<>>,
   new_list |-> <<>>, filter |-> <<>>, list |-> <<>>, idx |-> 0, acc |-> <<>>]

NoResult == [op |-> "", arg |-> <<>>, ret |-> NoRet, db |-> EmptyDb]

\* The store after commit_data_commit_info of d on store d0: the row, then the
\* partition record folded from what is stored.
AfterIngest(d, d0) ==
  LET d1 == DaoInsertApply("InsertDataCommitInfo",
              [EmptyWrapper EXCEPT !.data_commit_info = <<d>>], d0)
      meta == [table_info |-> TheTable,
               list_partition |->
                 <<PartitionInfoRec(d.table_id, d.partition_desc, 0, <<d.commit_id>>,
                                    "public", d.commit_op, "")>>]
      cur == SelectSeq(d1.partition_info,
               LAMBDA r : r.table_id = d.table_id /\ r.partition_desc = d.partition_desc)
      new == SeqMap(
               LAMBDA e : IF cur = <<>>
                            THEN [e EXCEPT !.version = 0]
                            ELSE [cur[1] EXCEPT !.version = @ + 1,
                                                !.snapshot = @ \o e.snapshot],
               meta.list_partition)
  IN DaoInsertApply("TransactionInsertPartitionInfo",
       [EmptyWrapper EXCEPT !.partition_info = new], d1)

\* The store after two earlier ingestions: partitions p=1 and p=2, one commit each.
SeededDb ==
  AfterIngest(DataCommitInfoRec("p=2", C2id, 2, TRUE, <<"b/1", "b/2">>),
    AfterIngest(DataCommitInfoRec("p=1", C1id, 1, FALSE, <<"a/1">>), TableDb))

\* The store after two tasks ingested one commit identifier side by side, both
\* looking it up before either inserted its row.
RacedDb ==
  AfterIngest(DataCommitInfoRec("p=1", C1id, 1, TRUE, <<"a/2">>),
    AfterIngest(DataCommitInfoRec("p=1", C1id, 1, FALSE, <<"a/1">>), TableDb))

\* The bytes a query result is made of, and the results the DAO hands over.
ByteValues == {0, 7}

Payloads == UNION {[1..n -> ByteValues] : n \in 0..MaxBytes}

\* The destination buffer of the caller, large enough for every export, and the
\* byte it is filled with before.
DstCap == MaxBytes + MaxExports + 1

BlankDst == [i \in 1..DstCap |-> 255]

\* No handle: execute_query of the foreign-function layer has not been called.
NoHandle ==
  [made |-> FALSE, bytes |-> <<>>, told |-> 0, dst |-> BlankDst, calls |-> 0,
   cb |-> "none", len |-> 0, before |-> <<>>, dstBefore |-> BlankDst, oks |-> <<>>]

InitWith(quota, shared, failures, stores, args) ==
  /\ ffi = NoHandle
  /\ max_retry \in 0..MaxRetryBound
  /\ clientOf = [t \in Tasks |-> IF t = "ta" \/ shared THEN "c1" ELSE "c2"]
  /\ clientLock = [c \in Clients |-> NoTask]
  /\ preparedLock = [c \in Clients |-> NoTask]
  /\ db \in stores
  /\ pc = [t \in Tasks |-> "idle"]
  /\ loc = [t \in Tasks |-> NoLoc]
  /\ call = [t \in Tasks |-> NoCall]
  /\ result = [t \in Tasks |-> NoResult]
  /\ prev = [t \in Tasks |-> NoResult]
  /\ hist = [t \in Tasks |-> <<>>]
  /\ pre = [t \in Tasks |-> EmptyDb]
  /\ fails = failures
  /\ left = quota
  /\ inputs = args

\* One task runs operations one after another.
Init ==
  InitWith([t \in Tasks |-> [ops |-> IF t = "ta" THEN MaxOps ELSE 0, lookups |-> TRUE]],
           TRUE, MaxFail, {EmptyDb, TableDb, SeededDb, RacedDb}, AllInputs)

\* Two tasks run operations side by side, on one client or on two; the second
\* task runs the operations that write.
InitConc ==
  \E shared \in BOOLEAN :
    InitWith([t \in Tasks |-> [ops |-> MaxConcOps, lookups |-> t = "ta"]],
             shared, MaxConcFail, {EmptyDb, SeededDb}, CoreInputs)

\* Two tasks run operations side by side on a store that holds the table alone.
InitFresh ==
  \E shared \in BOOLEAN :
    InitWith([t \in Tasks |-> [ops |-> MaxConcOps, lookups |-> t = "ta"]],
             shared, MaxConcFail, {TableDb}, CoreInputs)

\* ------------------------------------------- execute_insert / execute_query
\* A fresh retry loop: `for times in 0..self.max_retry`.
NewCall(t, kind, type, arg) ==
  [state |-> "start", kind |-> kind, type |-> type, arg |-> arg, times |-> 0,
   no |-> call[t].no + 1, ret |-> NoRet]

InsertCall(t, type, w) == NewCall(t, "insert", type, w)
QueryCall(t, type, arg) == NewCall(t, "query", type, arg)

\* The guard with the bound off by one: the loop gives up one attempt early.
RetryAgainEarly(times) == times < max_retry - 2

\* The guard of `Err(_) if times < self.max_retry - 1 => continue`.
RetryAgain(times) == times < max_retry - 1

\* The connection taken without waiting for the task that holds it.
LockClientNoWait(t) ==
  /\ call[t].state = "start"
  /\ call[t].times < max_retry
  /\ clientLock' = [clientLock EXCEPT ![clientOf[t]] = t]
  /\ call' = [call EXCEPT ![t].state = "have_client"]
  /\ UNCHANGED <<ffi, max_retry, clientOf, preparedLock, db, pc, loc, result, prev,
                 hist, pre, fails, left, inputs>>

\* self.client.lock().await: the loop body is entered and the connection taken.
LockClient(t) ==
  /\ call[t].state = "start"
  /\ call[t].times < max_retry
  /\ clientLock[clientOf[t]] = NoTask
  /\ clientLock' = [clientLock EXCEPT ![clientOf[t]] = t]
  /\ call' = [call EXCEPT ![t].state = "have_client"]
  /\ UNCHANGED <<ffi, max_retry, clientOf, preparedLock, db, pc, loc, result, prev,
                 hist, pre, fails, left, inputs>>

\* self.prepared.lock().await
LockPrepared(t) ==
  /\ call[t].state = "have_client"
  /\ preparedLock[clientOf[t]] = NoTask
  /\ preparedLock' = [preparedLock EXCEPT ![clientOf[t]] = t]
  /\ call' = [call EXCEPT ![t].state = "have_both"]
  /\ UNCHANGED <<ffi, max_retry, clientOf, clientLock, db, pc, loc, result, prev,
                 hist, pre, fails, left, inputs>>

\* The statement-cache guard dropped alone: the connection stays taken.
UnlockPreparedOnly(t) ==
  /\ clientLock' = clientLock
  /\ preparedLock' = [preparedLock EXCEPT ![clientOf[t]] = NoTask]

\* The connection guard dropped alone: the statement cache stays taken.
UnlockClientOnly(t) ==
  /\ clientLock' = [clientLock EXCEPT ![clientOf[t]] = NoTask]
  /\ preparedLock' = preparedLock

\* Both guards are temporaries of the match scrutinee: dropped when the attempt ends.
Unlock(t) ==
  /\ clientLock' = [clientLock EXCEPT ![clientOf[t]] = NoTask]
  /\ preparedLock' = [preparedLock EXCEPT ![clientOf[t]] = NoTask]

Attempt(t, status, err) ==
  [no |-> call[t].no, kind |-> call[t].kind, type |-> call[t].type,
   arg |-> call[t].arg, status |-> status, err |-> err, before |-> db]

\* What the wrapper returns for a successful DAO attempt.
OkReturn(kind, type, arg, d) ==
  IF kind = "insert"
    THEN Ok(DaoInsertCount(type, arg))
    ELSE DecodeWrapper(EncodeWrapper(DaoQueryRows(type, arg, d)))

\* The DAO call succeeds: `Ok(count) => return Ok(count)`, or
\* `Ok(encoded) => return Ok(JniWrapper::decode(..)?)`.
DaoOk(t) ==
  /\ call[t].state = "have_both"
  /\ call[t].kind = "insert" => DaoInsertAccepts(call[t].type, call[t].arg, db)
  /\ db' = IF call[t].kind = "insert"
             THEN DaoInsertApply(call[t].type, call[t].arg, db) ELSE db
  /\ call' = [call EXCEPT ![t].state = "returned",
                          ![t].ret = OkReturn(call[t].kind, call[t].type, call[t].arg, db)]
  /\ hist' = [hist EXCEPT ![t] = Append(@, Attempt(t, "Ok", NoErr))]
  /\ Unlock(t)
  /\ UNCHANGED <<ffi, max_retry, clientOf, pc, loc, result, prev, pre, fails, left, inputs>>

\* An envelope that is not an encoded JniWrapper.
Malformed == [magic |-> "garbage", body |-> <<>>]

\* The decode failure handled like a failed attempt: retried while attempts remain.
AfterUndecodableRetry(c, e) ==
  IF RetryAgain(c.times)
    THEN [c EXCEPT !.state = "start", !.times = @ + 1]
    ELSE [c EXCEPT !.state = "returned", !.ret = Err(e)]

\* `?` on JniWrapper::decode inside the Ok arm: the error leaves the loop.
AfterUndecodable(c, e) == [c EXCEPT !.state = "returned", !.ret = Err(e)]

\* The DAO query succeeds with an envelope that does not decode:
\* `Ok(encoded) => return Ok(JniWrapper::decode(..)?)`.
DaoUndecodable(t) ==
  /\ call[t].state = "have_both"
  /\ call[t].kind = "query"
  /\ LET e == DecodeWrapper(Malformed).err
     IN /\ call' = [call EXCEPT ![t] = AfterUndecodable(call[t], e)]
        /\ hist' = [hist EXCEPT ![t] = Append(@, Attempt(t, "Undecodable", e))]
  /\ Unlock(t)
  /\ UNCHANGED <<ffi, max_retry, clientOf, db, pc, loc, result, prev, pre, fails, left,
                 inputs>>

\* The last failure swallowed: the call returns what follows the loop.
AfterErrFallthrough(c, e) ==
  IF RetryAgain(c.times)
    THEN [c EXCEPT !.state = "start", !.times = @ + 1]
    ELSE [c EXCEPT !.state = "returned",
                    !.ret = IF c.kind = "insert" THEN Ok(0) ELSE Ok(EmptyWrapper)]

\* What the wrapper does with a failed attempt: retry, or surface the error.
AfterErr(c, e) ==
  IF RetryAgain(c.times)
    THEN [c EXCEPT !.state = "start", !.times = @ + 1]
    ELSE [c EXCEPT !.state = "returned", !.ret = Err(e)]

\* The DAO call fails: a transient failure, or the store rejecting the insert.
DaoErr(t) ==
  /\ call[t].state = "have_both"
  /\ LET rejected == call[t].kind = "insert"
                       /\ ~DaoInsertAccepts(call[t].type, call[t].arg, db)
         e == [kind |-> IF rejected THEN "Conflict" ELSE "DaoError",
               at |-> Len(hist[t]) + 1, msg |-> ""]
     IN /\ rejected \/ fails > 0
        /\ fails' = IF rejected THEN fails ELSE fails - 1
        /\ call' = [call EXCEPT ![t] = AfterErr(call[t], e)]
        /\ hist' = [hist EXCEPT ![t] = Append(@, Attempt(t, "Err", e))]
  /\ Unlock(t)
  /\ UNCHANGED <<ffi, max_retry, clientOf, db, pc, loc, result, prev, pre, left, inputs>>

\* What follows the loop: Ok(0), or Ok(Default::default()).
Fallthrough(kind) == IF kind = "insert" THEN Ok(0) ELSE Ok(EmptyWrapper)

\* The range 0..max_retry is used up without a return.
LoopExhausted(t) ==
  /\ call[t].state = "start"
  /\ ~(call[t].times < max_retry)
  /\ call' = [call EXCEPT ![t].state = "returned",
                          ![t].ret = Fallthrough(call[t].kind)]
  /\ UNCHANGED <<ffi, max_retry, clientOf, clientLock, preparedLock, db, pc, loc,
                 result, prev, hist, pre, fails, left, inputs>>

\* ------------------------------------------------------ operation plumbing
Lookups ==
  {"get_single_data_commit_info", "get_table_info_by_table_name",
   "get_schema_by_table_name", "get_data_files_by_table_name",
   "get_table_info_by_table_id", "get_table_name_id_by_table_name"}

\* A task starts a public operation with its first DAO call.
Begin(t, op, arg, label, l, c) ==
  /\ pc[t] = "idle"
  /\ left[t].ops > 0
  /\ op \in Lookups => left[t].lookups
  /\ left' = [left EXCEPT ![t].ops = @ - 1]
  /\ pc' = [pc EXCEPT ![t] = label]
  /\ loc' = [loc EXCEPT ![t] = [l EXCEPT !.op = op, !.arg = arg]]
  /\ call' = [call EXCEPT ![t] = [c EXCEPT !.no = 1]]
  /\ hist' = [hist EXCEPT ![t] = <<>>]
  /\ pre' = [pre EXCEPT ![t] = db]
  /\ prev' = [prev EXCEPT ![t] = result[t]]
  /\ result' = [result EXCEPT ![t] = NoResult]
  /\ UNCHANGED <<ffi, max_retry, clientOf, clientLock, preparedLock, db, fails, inputs>>

\* The operation goes on with its next DAO call.
Continue(t, label, l, c) ==
  /\ pc' = [pc EXCEPT ![t] = label]
  /\ loc' = [loc EXCEPT ![t] = l]
  /\ call' = [call EXCEPT ![t] = c]
  /\ UNCHANGED <<ffi, max_retry, clientOf, clientLock, preparedLock, db, result,
                 prev, hist, pre, fails, left, inputs>>

\* The operation returns r to its caller; a panic ends the task.
Finish(t, l, r) ==
  /\ pc' = [pc EXCEPT ![t] = IF r.status = "Panic" THEN "panicked" ELSE "idle"]
  /\ loc' = [loc EXCEPT ![t] = l]
  /\ call' = [call EXCEPT ![t] = [NoCall EXCEPT !.no = call[t].no]]
  /\ result' = [result EXCEPT ![t] = [op |-> l.op, arg |-> l.arg, ret |-> r, db |-> db]]
  /\ UNCHANGED <<ffi, max_retry, clientOf, clientLock, preparedLock, db, prev,
                 hist, pre, fails, left, inputs>>

Returned(t, label) == pc[t] = label /\ call[t].state = "returned"

\* ------------------------------------------------ get_single_data_commit_info
\* The match taking the last row instead of the first.
SingleDataCommitInfoResultLast(ret) ==
  IF ret.status = "Ok"
    THEN Ok(IF ret.val.data_commit_info = <<>>
              THEN [some |-> FALSE, row |-> <<>>]
              ELSE [some |-> TRUE,
                    row |-> <<ret.val.data_commit_info[Len(ret.val.data_commit_info)]>>])
    ELSE ret

\* The match on the query's result: None, the first row, or the error.
SingleDataCommitInfoResult(ret) ==
  IF ret.status = "Ok"
    THEN Ok(IF ret.val.data_commit_info = <<>>
              THEN [some |-> FALSE, row |-> <<>>]
              ELSE [some |-> TRUE, row |-> <<ret.val.data_commit_info[1]>>])
    ELSE ret

SingleLookupCall(t, table_id, desc, cid) ==
  QueryCall(t, "SelectOneDataCommitInfoByTableIdAndPartitionDescAndCommitId",
            <<table_id, desc, cid>>)

StartGetSingleDataCommitInfo(t) ==
  \E a \in inputs.single :
    Begin(t, "get_single_data_commit_info", a, "single", NoLoc,
          SingleLookupCall(t, a.table_id, a.partition_desc, a.commit_id))

GetSingleDataCommitInfoReturn(t) ==
  /\ Returned(t, "single")
  /\ Finish(t, loc[t], SingleDataCommitInfoResult(call[t].ret))

\* ----------------------------------------------- get_table_info_by_table_name
\* The match with an empty result answered by a default TableInfo.
TableInfoByTableNameResultDefault(ret, table_name) ==
  IF ret.status = "Ok"
    THEN IF ret.val.table_info = <<>>
           THEN Ok([table_id |-> "", table_name |-> "", table_namespace |-> "",
                    table_path |-> "", domain |-> "", table_schema |-> ""])
           ELSE Ok(ret.val.table_info[1])
    ELSE ret

\* The match on the query's result: not found, the first row, or the error.
TableInfoByTableNameResult(ret, table_name) ==
  IF ret.status = "Ok"
    THEN IF ret.val.table_info = <<>>
           THEN Err([kind |-> "Internal", at |-> 0,
                     msg |-> "Table '" \o table_name \o "' not found"])
           ELSE Ok(ret.val.table_info[1])
    ELSE ret

TableByNameCall(t, table_name, namespace) ==
  QueryCall(t, "SelectTableInfoByTableNameAndNameSpace", <<table_name, namespace>>)

StartGetTableInfoByTableName(t) ==
  \E n \in inputs.by_name :
    Begin(t, "get_table_info_by_table_name", [table_name |-> n, namespace |-> "default"],
          "by_name", NoLoc, TableByNameCall(t, n, "default"))

GetTableInfoByTableNameReturn(t) ==
  /\ Returned(t, "by_name")
  /\ Finish(t, loc[t], TableInfoByTableNameResult(call[t].ret, loc[t].arg.table_name))

\* --------------------------------------------------- get_schema_by_table_name
\* `?` on the lookup, then the schema of the table found.
SchemaResult(r) == IF r.status = "Ok" THEN Ok(r.val.table_schema) ELSE r

StartGetSchemaByTableName(t) ==
  \E n \in inputs.schema :
    Begin(t, "get_schema_by_table_name", [table_name |-> n, namespace |-> "default"],
          "schema", NoLoc, TableByNameCall(t, n, "default"))

GetSchemaByTableNameReturn(t) ==
  /\ Returned(t, "schema")
  /\ Finish(t, loc[t],
            SchemaResult(TableInfoByTableNameResult(call[t].ret, loc[t].arg.table_name)))

\* ----------------------------------------------- get_data_files_by_table_name
\* partition_filter: the caller's pairs, each formatted "key=value".
PartitionFilter(partitions) == SeqMap(FormatFilter, partitions)

\* The filter read as the set of partitions to include.
SkippedUnlessListed(filter, partition_info) ==
  partition_info.partition_desc \notin Range(filter)

\* `if partition_filter.contains(&partition_desc) { continue }`
Skipped(filter, partition_info) == partition_info.partition_desc \in Range(filter)

RECURSIVE NextIdx(_, _, _)
\* The next index of the loop that reaches the else branch; Len + 1 when none.
NextIdx(list, idx, filter) ==
  IF idx > Len(list) THEN idx
  ELSE IF Skipped(filter, list[idx]) THEN NextIdx(list, idx + 1, filter)
  ELSE idx

\* get_data_commit_info_of_single_partition: the query it issues.
CommitsOfPartitionCall(t, partition_info) ==
  QueryCall(t, "ListDataCommitInfoByTableIdAndPartitionDescAndCommitList",
            <<partition_info.table_id, partition_info.partition_desc,
              JoinCommitIds(partition_info.snapshot)>>)

\* The paths of every file operation of every commit, in order.
DataFileList(commits) ==
  Flatten(SeqMap(LAMBDA c : SeqMap(LAMBDA f : f.path, c.file_ops), commits))

StartGetDataFilesByTableName(t) ==
  \E a \in inputs.data_files :
    Begin(t, "get_data_files_by_table_name",
          [table_name |-> a.table_name, partitions |-> a.partitions,
           namespace |-> "default"],
          "df_table", [NoLoc EXCEPT !.filter = PartitionFilter(a.partitions)],
          TableByNameCall(t, a.table_name, "default"))

\* The loop from index idx on: the next partition's query, or the result.
DataFilesLoop(t, l) ==
  LET i == NextIdx(l.list, l.idx, l.filter)
  IN IF i > Len(l.list)
       THEN Finish(t, [l EXCEPT !.idx = i], Ok(l.acc))
       ELSE Continue(t, "df_commits", [l EXCEPT !.idx = i],
                     CommitsOfPartitionCall(t, l.list[i]))

DataFilesAfterTable(t) ==
  /\ Returned(t, "df_table")
  /\ LET r == TableInfoByTableNameResult(call[t].ret, loc[t].arg.table_name)
     IN IF r.status = "Ok"
          THEN Continue(t, "df_parts", loc[t],
                        QueryCall(t, "ListPartitionByTableId", <<r.val.table_id>>))
          ELSE Finish(t, loc[t], r)

DataFilesAfterPartitions(t) ==
  /\ Returned(t, "df_parts")
  /\ IF call[t].ret.status = "Ok"
       THEN DataFilesLoop(t, [loc[t] EXCEPT !.list = call[t].ret.val.partition_info,
                                            !.idx = 1, !.acc = <<>>])
       ELSE Finish(t, loc[t], call[t].ret)

DataFilesAfterCommits(t) ==
  /\ Returned(t, "df_commits")
  /\ IF call[t].ret.status = "Ok"
       THEN DataFilesLoop(t, [loc[t] EXCEPT
              !.acc = @ \o DataFileList(call[t].ret.val.data_commit_info),
              !.idx = @ + 1])
       ELSE Finish(t, loc[t], call[t].ret)

\* --------------------------------------------------------------- create_table
StartCreateTable(t) ==
  Begin(t, "create_table", TheTable, "ct_path", NoLoc,
        InsertCall(t, "InsertTablePathId",
          [EmptyWrapper EXCEPT !.table_path_id = <<TablePathIdFromTableInfo(TheTable)>>]))

CreateTableAfterPathId(t) ==
  /\ Returned(t, "ct_path")
  /\ IF call[t].ret.status = "Ok"
       THEN Continue(t, "ct_name", loc[t],
              InsertCall(t, "InsertTableNameId",
                [EmptyWrapper EXCEPT
                   !.table_name_id = <<TableNameIdFromTableInfo(loc[t].arg)>>]))
       ELSE Finish(t, loc[t], call[t].ret)

CreateTableAfterNameId(t) ==
  /\ Returned(t, "ct_name")
  /\ IF call[t].ret.status = "Ok"
       THEN Continue(t, "ct_info", loc[t],
              InsertCall(t, "InsertTableInfo",
                [EmptyWrapper EXCEPT !.table_info = <<loc[t].arg>>]))
       ELSE Finish(t, loc[t], call[t].ret)

CreateTableReturn(t) ==
  /\ Returned(t, "ct_info")
  /\ Finish(t, loc[t], IF call[t].ret.status = "Ok" THEN Ok(<<>>) ELSE call[t].ret)

\* ---------------------------------------------------------------- commit_data
\* partition_desc_list
PartitionDescList(meta) == SeqMap(LAMBDA p : p.partition_desc, meta.list_partition)

\* get_partition_info_by_table_id_and_partition_list: the query it issues.
PartitionReadCall(t, meta) ==
  QueryCall(t, "ListPartitionDescByTableIdAndParList",
            <<meta.table_info.table_id, PartitionDescList(meta)>>)

\* get_cur_partition_map, then cur_map.get(partition_desc): collecting into the
\* HashMap keeps the last record of a descriptor.
CurMapGet(cur_list, desc) ==
  LET hits == {i \in DOMAIN cur_list : cur_list[i].partition_desc = desc}
  IN IF hits = {} THEN [some |-> FALSE, rec |-> <<>>]
     ELSE [some |-> TRUE,
           rec |-> <<cur_list[CHOOSE i \in hits : \A j \in hits : j <= i]>>]

\* The Some arm without the version increment.
MergedPartitionSameVersion(cur, entry, table_info, cop) ==
  [cur EXCEPT !.domain = GetTableDomain(table_info.table_id),
              !.snapshot = @ \o entry.snapshot,
              !.commit_op = CommitOpAsI32(cop),
              !.expression = entry.expression]

\* The Some arm appending only the commit identifiers not yet in the snapshot.
MergedPartitionDedup(cur, entry, table_info, cop) ==
  [cur EXCEPT !.domain = GetTableDomain(table_info.table_id),
              !.snapshot = @ \o SelectSeq(entry.snapshot,
                                          LAMBDA c : c \notin Range(cur.snapshot)),
              !.version = @ + 1,
              !.commit_op = CommitOpAsI32(cop),
              !.expression = entry.expression]

\* The Some(cur_partition_info) arm.
MergedPartition(cur, entry, table_info, cop) ==
  [cur EXCEPT !.domain = GetTableDomain(table_info.table_id),
              !.snapshot = @ \o entry.snapshot,
              !.version = @ + 1,
              !.commit_op = CommitOpAsI32(cop),
              !.expression = entry.expression]

\* The None arm starting the partition at version 1.
FirstPartitionVersionOne(entry, table_info, cop) ==
  PartitionInfoRec(table_info.table_id, entry.partition_desc, 1, entry.snapshot,
                   GetTableDomain(table_info.table_id), CommitOpAsI32(cop),
                   entry.expression)

\* The None arm.
FirstPartition(entry, table_info, cop) ==
  PartitionInfoRec(table_info.table_id, entry.partition_desc, 0, entry.snapshot,
                   GetTableDomain(table_info.table_id), CommitOpAsI32(cop),
                   entry.expression)

\* The closure without the lookup in cur_map: every entry starts a partition.
NewPartitionAlwaysFirst(entry, cur_list, table_info, cop) ==
  FirstPartition(entry, table_info, cop)

\* The closure mapped over meta_info.list_partition.
NewPartition(entry, cur_list, table_info, cop) ==
  LET cur == CurMapGet(cur_list, entry.partition_desc)
  IN IF cur.some THEN MergedPartition(cur.rec[1], entry, table_info, cop)
     ELSE FirstPartition(entry, table_info, cop)

\* The list with the entries of one descriptor pooled: each record takes the
\* snapshot additions of every entry that names its partition.
NewPartitionListPooled(meta, cur_list, cop) ==
  SeqMap(LAMBDA e :
           NewPartition(
             [e EXCEPT !.snapshot =
                Flatten(SeqMap(LAMBDA x : x.snapshot,
                               SelectSeq(meta.list_partition,
                                         LAMBDA x : x.partition_desc = e.partition_desc)))],
             cur_list, meta.table_info, cop),
         meta.list_partition)

\* new_partition_list
NewPartitionList(meta, cur_list, cop) ==
  SeqMap(LAMBDA e : NewPartition(e, cur_list, meta.table_info, cop), meta.list_partition)

\* The arm of `match commit_op` that folds.
Folds(cop) == cop \in {"AppendCommit", "MergeCommit"}

StartCommitData(t) ==
  \E a \in inputs.commit_data :
    Begin(t, "commit_data", a, "cd_read",
          [NoLoc EXCEPT !.meta = a.meta, !.cop = a.op], PartitionReadCall(t, a.meta))

\* `.await?` on the read, then the match on commit_op.
CommitDataAfterRead(t) ==
  /\ Returned(t, "cd_read")
  /\ IF call[t].ret.status # "Ok" THEN Finish(t, loc[t], call[t].ret)
     ELSE IF Folds(loc[t].cop)
       THEN LET cur == call[t].ret.val.partition_info
                new == NewPartitionList(loc[t].meta, cur, loc[t].cop)
            IN Continue(t, "cd_write", [loc[t] EXCEPT !.cur = cur, !.new_list = new],
                 InsertCall(t, "TransactionInsertPartitionInfo",
                            [EmptyWrapper EXCEPT !.partition_info = new]))
       ELSE Finish(t, loc[t], Panic("not yet implemented"))

CommitDataReturn(t) ==
  /\ Returned(t, "cd_write")
  /\ Finish(t, loc[t], IF call[t].ret.status = "Ok" THEN Ok(<<>>) ELSE call[t].ret)

\* ---------------------------------------------------- commit_data_commit_info
\* get_table_info_by_table_id: `wrapper.table_info[0]` of the query's result.
TableInfoByTableIdResult(ret) ==
  IF ret.status = "Ok"
    THEN IF ret.val.table_info = <<>>
           THEN Panic("index out of bounds")
           ELSE Ok(ret.val.table_info[1])
    ELSE ret

TableByIdCall(t, table_id) == QueryCall(t, "SelectTableInfoByTableId", <<table_id>>)

\* The MetaInfo with an empty snapshot: the commit identifier left out.
IngestMetaInfoNoSnapshot(d, table_info) ==
  [table_info |-> table_info,
   list_partition |->
     <<PartitionInfoRec(d.table_id, d.partition_desc, 0, <<>>,
                        GetTableDomain(d.table_id), d.commit_op, "")>>]

\* The MetaInfo handed to commit_data.
IngestMetaInfo(d, table_info) ==
  [table_info |-> table_info,
   list_partition |->
     <<PartitionInfoRec(d.table_id, d.partition_desc, 0, <<d.commit_id>>,
                        GetTableDomain(d.table_id), d.commit_op, "")>>]

StartCommitDataCommitInfo(t) ==
  \E d \in inputs.commit_data_commit_info :
    Begin(t, "commit_data_commit_info", d, "ci_lookup", NoLoc,
          SingleLookupCall(t, d.table_id, d.partition_desc, UuidToString(d.commit_id)))

\* The match without its committed arm: a found record is never a replay.
LookupArmNotCommitted(found) == IF ~found.some THEN "None" ELSE "Other"

\* The match taking the None arm whatever the lookup found.
LookupArmAsNone(found) == "None"

\* The match returning early for every record found, committed or not.
LookupArmFoundReturns(found) == IF ~found.some THEN "None" ELSE "Committed"

\* The arm the match on get_single_data_commit_info(..).await? takes.
LookupArm(found) ==
  IF ~found.some THEN "None"
  ELSE IF found.row[1].committed THEN "Committed"
  ELSE "Other"

\* The match on get_single_data_commit_info(..).await?
IngestAfterLookup(t) ==
  /\ Returned(t, "ci_lookup")
  /\ LET r == SingleDataCommitInfoResult(call[t].ret)
         d == loc[t].arg
     IN IF r.status # "Ok" THEN Finish(t, loc[t], r)
        ELSE IF LookupArm(r.val) = "Committed" THEN Finish(t, loc[t], Ok(<<>>))
        ELSE IF LookupArm(r.val) = "None"
          THEN Continue(t, "ci_insert", loc[t],
                 InsertCall(t, "InsertDataCommitInfo",
                            [EmptyWrapper EXCEPT !.data_commit_info = <<d>>]))
        ELSE Continue(t, "ci_table", loc[t], TableByIdCall(t, d.table_id))

\* self.insert_data_commit_info(&data_commit_info).await?
IngestAfterInsert(t) ==
  /\ Returned(t, "ci_insert")
  /\ IF call[t].ret.status = "Ok"
       THEN Continue(t, "ci_table", loc[t], TableByIdCall(t, loc[t].arg.table_id))
       ELSE Finish(t, loc[t], call[t].ret)

\* The table lookup, CommitOp::from_i32(commit_op).unwrap(), then commit_data.
IngestAfterTable(t) ==
  /\ Returned(t, "ci_table")
  /\ LET r == TableInfoByTableIdResult(call[t].ret)
         d == loc[t].arg
         cop == CommitOpFromI32(d.commit_op)
     IN IF r.status # "Ok" THEN Finish(t, loc[t], r)
        ELSE IF ~cop.some THEN Finish(t, loc[t], Panic("unwrap on None"))
        ELSE LET meta == IngestMetaInfo(d, r.val)
             IN Continue(t, "cd_read", [loc[t] EXCEPT !.meta = meta, !.cop = cop.op],
                         PartitionReadCall(t, meta))

\* ------------------------------------------------- get_table_info_by_table_id
StartGetTableInfoByTableId(t) ==
  \E id \in {r.table_id : r \in {TheTable}} :
    Begin(t, "get_table_info_by_table_id", [table_id |-> id], "by_id", NoLoc,
          TableByIdCall(t, id))

GetTableInfoByTableIdReturn(t) ==
  /\ Returned(t, "by_id")
  /\ Finish(t, loc[t], TableInfoByTableIdResult(call[t].ret))

\* -------------------------------------------- get_table_name_id_by_table_name
\* `Ok(wrapper) => Ok(wrapper.table_name_id[0].clone())`, or the error.
TableNameIdResult(ret) ==
  IF ret.status = "Ok"
    THEN IF ret.val.table_name_id = <<>>
           THEN Panic("index out of bounds")
           ELSE Ok(ret.val.table_name_id[1])
    ELSE ret

StartGetTableNameIdByTableName(t) ==
  \E n \in inputs.by_name :
    Begin(t, "get_table_name_id_by_table_name",
          [table_name |-> n, namespace |-> "default"], "name_id", NoLoc,
          QueryCall(t, "SelectTableNameIdByTableName", <<n, "default">>))

GetTableNameIdByTableNameReturn(t) ==
  /\ Returned(t, "name_id")
  /\ Finish(t, loc[t], TableNameIdResult(call[t].ret))

Next ==
  \E t \in Tasks :
    \/ LockClient(t)
    \/ LockPrepared(t)
    \/ DaoOk(t)
    \/ DaoErr(t)
    \/ LoopExhausted(t)
    \/ StartGetSingleDataCommitInfo(t)
    \/ GetSingleDataCommitInfoReturn(t)
    \/ StartGetTableInfoByTableName(t)
    \/ GetTableInfoByTableNameReturn(t)
    \/ StartGetSchemaByTableName(t)
    \/ GetSchemaByTableNameReturn(t)
    \/ StartGetDataFilesByTableName(t)
    \/ DataFilesAfterTable(t)
    \/ DataFilesAfterPartitions(t)
    \/ DataFilesAfterCommits(t)
    \/ StartCreateTable(t)
    \/ CreateTableAfterPathId(t)
    \/ CreateTableAfterNameId(t)
    \/ CreateTableReturn(t)
    \/ StartCommitData(t)
    \/ CommitDataAfterRead(t)
    \/ CommitDataReturn(t)
    \/ StartCommitDataCommitInfo(t)
    \/ IngestAfterLookup(t)
    \/ IngestAfterInsert(t)
    \/ IngestAfterTable(t)
    \/ StartGetTableInfoByTableId(t)
    \/ GetTableInfoByTableIdReturn(t)
    \/ StartGetTableNameIdByTableName(t)
    \/ GetTableNameIdByTableNameReturn(t)

Spec == Init /\ [][Next]_vars

SpecConc == InitConc /\ [][Next]_vars

SpecFresh == InitFresh /\ [][Next]_vars

\* The steps of Next, and the DAO answering a query with a malformed envelope.
NextDecode == Next \/ \E t \in Tasks : DaoUndecodable(t)

SpecDecode == Init /\ [][NextDecode]_vars

\* ---------------------------------------------------------------- meta_cleanup
\* clean_meta_for_test: the test-only wipe of the whole store, and its row count.
DaoCleanApply(d) == EmptyDb

DaoCleanCount(d) ==
  Len(d.table_info) + Len(d.table_name_id) + Len(d.table_path_id)
    + Len(d.partition_info) + Len(d.data_commit_info)

StartMetaCleanup(t) == Begin(t, "meta_cleanup", <<>>, "mc_wait", NoLoc, NoCall)

\* self.client.lock().await: the connection alone is taken.
MetaCleanupLock(t) ==
  /\ pc[t] = "mc_wait"
  /\ clientLock[clientOf[t]] = NoTask
  /\ clientLock' = [clientLock EXCEPT ![clientOf[t]] = t]
  /\ pc' = [pc EXCEPT ![t] = "mc_run"]
  /\ UNCHANGED <<ffi, max_retry, clientOf, preparedLock, db, loc, call, result, prev,
                 hist, pre, fails, left, inputs>>

\* The wipe returns, with its count or an error, and the guard is dropped; the
\* result is handed to the caller as it is, without a retry.
MetaCleanupReturn(t) ==
  /\ pc[t] = "mc_run"
  /\ \E ok \in BOOLEAN :
       /\ ~ok => fails > 0
       /\ fails' = IF ok THEN fails ELSE fails - 1
       /\ db' = IF ok THEN DaoCleanApply(db) ELSE db
       /\ result' = [result EXCEPT ![t] =
            [op |-> "meta_cleanup", arg |-> <<>>,
             ret |-> IF ok THEN Ok(DaoCleanCount(db))
                     ELSE Err([kind |-> "DaoError", at |-> 1, msg |-> ""]),
             db |-> db']]
  /\ clientLock' = [clientLock EXCEPT ![clientOf[t]] = NoTask]
  /\ pc' = [pc EXCEPT ![t] = "idle"]
  /\ UNCHANGED <<ffi, max_retry, clientOf, preparedLock, loc, call, prev, hist, pre,
                 left, inputs>>

\* The steps of Next, and meta_cleanup.
NextLocks ==
  \/ Next
  \/ \E t \in Tasks :
       \/ StartMetaCleanup(t)
       \/ MetaCleanupLock(t)
       \/ MetaCleanupReturn(t)

\* Two tasks run operations side by side on one client.
InitLive ==
  InitWith([t \in Tasks |-> [ops |-> MaxConcOps, lookups |-> t = "ta"]],
           TRUE, MaxConcFail, {EmptyDb, SeededDb}, LiveInputs)

\* Every DAO call returns, and the tokio mutexes hand the lock to each waiter in
\* turn: a task that keeps waiting for a lock that keeps being released gets it.
Fairness ==
  \A t \in Tasks :
    /\ SF_vars(LockClient(t))
    /\ SF_vars(LockPrepared(t))
    /\ SF_vars(MetaCleanupLock(t))
    /\ WF_vars(DaoOk(t) \/ DaoErr(t))
    /\ WF_vars(MetaCleanupReturn(t))
    /\ WF_vars(LoopExhausted(t))

SpecLive == InitLive /\ [][NextLocks]_vars /\ Fairness

\* ------------------------------------------------- the foreign-function layer
\* execute_query: the callback is told the length, or -1, and the handle holds the
\* bytes, or an empty vector.
QueryHandle(r) ==
  [NoHandle EXCEPT !.made = TRUE,
                   !.bytes = IF r.status = "Ok" THEN r.val ELSE <<>>,
                   !.told = IF r.status = "Ok" THEN Len(r.val) ELSE -1]

FfiExecuteQuery ==
  /\ ~ffi.made
  /\ \E r \in {Ok(p) : p \in Payloads}
                \cup {Err([kind |-> "DaoError", at |-> 0, msg |-> ""])} :
       ffi' = QueryHandle(r)
  /\ UNCHANGED <<max_retry, clientOf, clientLock, preparedLock, db, pc, loc, call,
                 result, prev, hist, pre, fails, left, inputs>>

\* `bytes.len() != len` after `len as usize`: a negative i32 becomes a usize of
\* at least 2^63, above the length of every vector.
SizeMismatch(bytes, len) == len < 0 \/ Len(bytes) # len

\* The export writing a copy and leaving the held result as it is.
ExportBytesResultNoPush(h, len) ==
  IF SizeMismatch(h.bytes, len)
    THEN [h EXCEPT !.cb = "false", !.len = len, !.calls = @ + 1,
                   !.before = h.bytes, !.dstBefore = h.dst]
    ELSE [h EXCEPT !.cb = "true", !.len = len, !.calls = @ + 1,
                   !.before = h.bytes, !.dstBefore = h.dst,
                   !.dst = [i \in 1..DstCap |->
                              IF i <= len THEN h.bytes[i]
                              ELSE IF i = len + 1 THEN 0 ELSE h.dst[i]],
                   !.oks = Append(@, len)]

\* export_bytes_result: the mismatch branch, or push(0), write_all into the
\* len + 1 bytes at addr, and callback(true).
ExportBytesResult(h, len) ==
  IF SizeMismatch(h.bytes, len)
    THEN [h EXCEPT !.cb = "false", !.len = len, !.calls = @ + 1,
                   !.before = h.bytes, !.dstBefore = h.dst]
    ELSE LET pushed == Append(h.bytes, 0)
         IN [h EXCEPT !.cb = "true", !.len = len, !.calls = @ + 1,
                      !.before = h.bytes, !.dstBefore = h.dst,
                      !.bytes = pushed,
                      !.dst = [i \in 1..DstCap |->
                                 IF i <= len + 1 THEN pushed[i] ELSE h.dst[i]],
                      !.oks = Append(@, len)]

FfiExportBytesResult ==
  /\ ffi.made
  /\ ffi.calls < MaxExports
  /\ \E len \in -1..(MaxBytes + MaxExports - 1) : ffi' = ExportBytesResult(ffi, len)
  /\ UNCHANGED <<max_retry, clientOf, clientLock, preparedLock, db, pc, loc, call,
                 result, prev, hist, pre, fails, left, inputs>>

\* free_bytes_result: the handle is gone.
FfiFreeBytesResult ==
  /\ ffi.made
  /\ ffi' = NoHandle
  /\ UNCHANGED <<max_retry, clientOf, clientLock, preparedLock, db, pc, loc, call,
                 result, prev, hist, pre, fails, left, inputs>>

NextFfi ==
  \/ FfiExecuteQuery
  \/ FfiExportBytesResult
  \/ FfiFreeBytesResult

\* A caller of the foreign-function layer alone: no task uses the client.
InitFfi ==
  InitWith([t \in Tasks |-> [ops |-> 0, lookups |-> FALSE]], TRUE, 0, {EmptyDb},
           AllInputs)

SpecFfi == InitFfi /\ [][NextFfi]_vars

\* ------------------------------------------------------------------ claims
Finished(t, op) == pc[t] \in {"idle", "panicked"} /\ result[t].op = op

\* No other task has started an operation.
Alone(t) == \A u \in Tasks \ {t} : pc[u] = "idle" /\ result[u].op = ""

\* The DAO attempts of the k-th execute_insert / execute_query call of t's operation.
CallAttempts(t, k) == SelectSeq(hist[t], LAMBDA h : h.no = k)

\* What the DAO answered to a query attempt.
RowsOf(h) == DaoQueryRows(h.type, h.arg, h.before)

Failures(as) == Cardinality({i \in DOMAIN as : as[i].status = "Err"})

\* C4 (as claimed): for every max_retry, an execute_insert call that saw the DAO
\* fail N times returns success if and only if N < max_retry, then with the DAO's
\* row count; otherwise it returns the error of its last attempt.
C4_RetryBound ==
  \A t \in Tasks :
    (call[t].state = "returned" /\ call[t].kind = "insert") =>
      LET as == CallAttempts(t, call[t].no)
          ret == call[t].ret
      IN /\ (ret.status = "Ok") <=> (Failures(as) < max_retry)
         /\ ret.status = "Ok" => ret.val = DaoInsertCount(call[t].type, call[t].arg)
         /\ ret.status = "Err" => as # <<>> /\ ret.err = as[Len(as)].err

\* C5: a returned execute_insert / execute_query call made min(N+1, max_retry) DAO
\* attempts, N being the failures before the first success; every attempt carried
\* the call's operation code and payload; none followed a success; and an error
\* returned is the error of the final attempt, never of an earlier one.
C5_AttemptDiscipline ==
  \A t \in Tasks :
    call[t].state \in {"start", "have_client", "have_both", "returned"} =>
      LET as == CallAttempts(t, call[t].no)
          n == Len(as)
          ret == call[t].ret
      IN /\ n <= max_retry
         /\ \A i \in 1..n :
              /\ as[i].type = as[1].type /\ as[i].kind = as[1].kind
              /\ as[i].arg = as[1].arg
              /\ i < n => as[i].status = "Err"
         /\ call[t].state = "returned" =>
              /\ n = IF \E i \in 1..n : as[i].status = "Ok"
                       THEN Failures(as) + 1 ELSE max_retry
              /\ ret.status = "Err" =>
                   /\ n > 0 /\ as[n].status = "Err" /\ ret.err = as[n].err
                   /\ \A i \in 1..(n - 1) : ret.err # as[i].err
         /\ call[t].state # "returned" => \A i \in 1..n : as[i].status = "Err"

\* C5 witness: a call returned the error of its second attempt, after a retry.
C5_Witness ==
  \E t \in Tasks :
    /\ call[t].state = "returned" /\ call[t].ret.status = "Err"
    /\ Len(CallAttempts(t, call[t].no)) = 2
    /\ call[t].kind = "query"

\* The attempts of the table lookup that opens the three lookups by name.
TableLookupEmpty(t) ==
  LET as == CallAttempts(t, 1)
  IN /\ as # <<>>
     /\ as[Len(as)].status = "Ok"
     /\ RowsOf(as[Len(as)]).table_info = <<>>

ByNameOps ==
  {"get_table_info_by_table_name", "get_schema_by_table_name",
   "get_data_files_by_table_name"}

\* C6: when the table query answers with no row, get_table_info_by_table_name,
\* get_schema_by_table_name and get_data_files_by_table_name return the not-found
\* error naming the requested table, and no query follows the lookup.
C6_TableNotFound ==
  \A t \in Tasks : \A op \in ByNameOps :
    (Finished(t, op) /\ TableLookupEmpty(t)) =>
      /\ result[t].ret.status = "Err"
      /\ result[t].ret.err.kind = "Internal"
      /\ result[t].ret.err.msg = "Table '" \o result[t].arg.table_name \o "' not found"
      /\ \A i \in DOMAIN hist[t] : hist[t][i].no = 1

\* C6 witness: get_data_files_by_table_name ended on a lookup that found no table.
C6_Witness ==
  \E t \in Tasks :
    /\ Finished(t, "get_data_files_by_table_name")
    /\ TableLookupEmpty(t)

\* C7: get_single_data_commit_info returns None when the query answers with no
\* row, the first row when it answers with one or more, and an error only when
\* the query failed on every attempt.
C7_SingleLookup ==
  \A t \in Tasks :
    (Finished(t, "get_single_data_commit_info") /\ hist[t] # <<>>) =>
      LET h == hist[t][Len(hist[t])]
          rows == RowsOf(h).data_commit_info
          ret == result[t].ret
      IN /\ (h.status = "Ok" /\ rows = <<>>) =>
              ret.status = "Ok" /\ ~ret.val.some
         /\ (h.status = "Ok" /\ rows # <<>>) =>
              ret.status = "Ok" /\ ret.val.some /\ ret.val.row = <<rows[1]>>
         /\ h.status = "Err" =>
              ret.status = "Err" /\ ret.err = h.err /\ Len(hist[t]) = max_retry
         /\ ret.status \in {"Ok", "Err"}

\* C7 witness: the query answered with two different rows for one commit identifier.
C7_Witness ==
  \E t \in Tasks :
    /\ Finished(t, "get_single_data_commit_info") /\ hist[t] # <<>>
    /\ hist[t][Len(hist[t])].status = "Ok"
    /\ LET rows == RowsOf(hist[t][Len(hist[t])]).data_commit_info
       IN Len(rows) = 2 /\ rows[1] # rows[2]

\* The 'key=value' strings of the caller's filter pairs.
FilterSet(partitions) == {kv[1] \o "=" \o kv[2] : kv \in Range(partitions)}

\* The paths of the commits the store d holds for partition p's snapshot.
PathsOf(p, d) ==
  DataFileList(
    DaoQueryRows("ListDataCommitInfoByTableIdAndPartitionDescAndCommitList",
                 <<p.table_id, p.partition_desc, JoinCommitIds(p.snapshot)>>,
                 d).data_commit_info)

\* The partitions of the named table in the store d, in the DAO's order.
PartitionsOfTable(name, ns, d) ==
  LET tables == SelectSeq(d.table_info,
                  LAMBDA r : r.table_name = name /\ r.table_namespace = ns)
  IN IF tables = <<>> THEN <<>>
     ELSE SelectSeq(d.partition_info, LAMBDA r : r.table_id = tables[1].table_id)

\* C8: a successful get_data_files_by_table_name returns the paths of the partitions
\* whose descriptor is not in the filter set, concatenated in the order the
\* partitions are enumerated, and it issues no data-commit query for a partition
\* whose descriptor is in the filter set.
C8_ExcludeFilter ==
  \A t \in Tasks :
    (Finished(t, "get_data_files_by_table_name") /\ Alone(t)) =>
      LET a == result[t].arg
          fset == FilterSet(a.partitions)
          parts == PartitionsOfTable(a.table_name, a.namespace, pre[t])
      IN /\ \A i \in DOMAIN hist[t] :
              hist[t][i].type = "ListDataCommitInfoByTableIdAndPartitionDescAndCommitList"
                => hist[t][i].arg[2] \notin fset
         /\ result[t].ret.status = "Ok" =>
              result[t].ret.val =
                Flatten(SeqMap(LAMBDA q : IF q.partition_desc \in fset THEN <<>>
                                          ELSE PathsOf(q, pre[t]),
                               parts))

\* C8 witness: the table has a partition in the filter set and one outside it, and
\* the call returned the paths of the second only.
C8_Witness ==
  \E t \in Tasks :
    /\ Finished(t, "get_data_files_by_table_name") /\ Alone(t)
    /\ result[t].ret.status = "Ok" /\ result[t].ret.val # <<>>
    /\ LET parts == PartitionsOfTable(result[t].arg.table_name,
                                      result[t].arg.namespace, pre[t])
           fset == FilterSet(result[t].arg.partitions)
       IN /\ \E i \in DOMAIN parts :
               parts[i].partition_desc \in fset /\ PathsOf(parts[i], pre[t]) # <<>>
          /\ \E i \in DOMAIN parts : parts[i].partition_desc \notin fset

\* C9 (as claimed): commit_data with a commit_op other than AppendCommit and
\* MergeCommit returns an unsupported-operation error value, without a panic, and
\* writes no partition record.
C9_UnsupportedOp ==
  \A t \in Tasks :
    (Finished(t, "commit_data") /\ ~Folds(result[t].arg.op)) =>
      /\ result[t].ret.status = "Err"
      /\ (hist[t] # <<>> /\ hist[t][Len(hist[t])].status = "Ok")
           => result[t].ret.err.kind = "Unsupported"
      /\ \A i \in DOMAIN hist[t] : hist[t][i].kind # "insert"

\* The call got as far as decoding commit_op: its table lookup found the table.
ReachedDecode(t) ==
  \E i \in DOMAIN hist[t] :
    /\ hist[t][i].type = "SelectTableInfoByTableId"
    /\ hist[t][i].status = "Ok"
    /\ RowsOf(hist[t][i]).table_info # <<>>

\* C10 (as claimed): commit_data_commit_info of a record whose commit_op integer is
\* outside the enumeration returns a decode error, without an abort, and writes no
\* partition record.
C10_UnknownCommitOp ==
  \A t \in Tasks :
    ( /\ Finished(t, "commit_data_commit_info")
      /\ ~CommitOpFromI32(result[t].arg.commit_op).some
      /\ ReachedDecode(t) ) =>
      /\ result[t].ret.status = "Err"
      /\ result[t].ret.err.kind = "DecodeError"
      /\ \A i \in DOMAIN hist[t] : hist[t][i].type # "TransactionInsertPartitionInfo"

\* The lookup of the call answered, and its first row is a committed record.
CommittedReplay(t) ==
  LET as == CallAttempts(t, 1)
  IN /\ as # <<>>
     /\ as[Len(as)].status = "Ok"
     /\ RowsOf(as[Len(as)]).data_commit_info # <<>>
     /\ RowsOf(as[Len(as)]).data_commit_info[1].committed

\* C2: when the lookup of commit_data_commit_info finds a committed record, the
\* call returns success after that lookup alone: every DAO attempt belongs to the
\* lookup, none is an insert, and the store is as it was before the call.
C2_CommittedReplayNoOp ==
  \A t \in Tasks :
    (Finished(t, "commit_data_commit_info") /\ CommittedReplay(t)) =>
      /\ result[t].ret = Ok(<<>>)
      /\ \A i \in DOMAIN hist[t] :
           /\ hist[t][i].no = 1
           /\ hist[t][i].type = "SelectOneDataCommitInfoByTableIdAndPartitionDescAndCommitId"
      /\ Alone(t) => db = pre[t]

\* C2 witness: a committed record was replayed, the lookup succeeding on a retry.
C2_Witness ==
  \E t \in Tasks :
    /\ Finished(t, "commit_data_commit_info") /\ CommittedReplay(t)
    /\ Len(hist[t]) = 2
    /\ db.partition_info # <<>>

\* Task t, alone, finished a second successful commit_data_commit_info of the
\* DataCommitInfo of its previous, successful, call.
SecondIngest(t) ==
  /\ Alone(t)
  /\ Finished(t, "commit_data_commit_info")
  /\ result[t].ret.status = "Ok"
  /\ prev[t].op = "commit_data_commit_info"
  /\ prev[t].arg = result[t].arg
  /\ prev[t].ret.status = "Ok"

\* The records the store d holds for the key of the DataCommitInfo x.
StoredFor(x, d) ==
  SelectSeq(d.data_commit_info,
    LAMBDA r : /\ r.table_id = x.table_id /\ r.partition_desc = x.partition_desc
               /\ r.commit_id = x.commit_id)

FoldDone(t) ==
  /\ pc[t] = "idle"
  /\ result[t].op \in {"commit_data", "commit_data_commit_info"}
  /\ result[t].ret.status = "Ok"
  /\ Folds(loc[t].cop)

\* The transactional partition writes of t's operation that the DAO applied.
Writes(t) ==
  {i \in DOMAIN hist[t] :
     hist[t][i].type = "TransactionInsertPartitionInfo" /\ hist[t][i].status = "Ok"}

\* The store right after the DAO applied the insert attempt h.
AfterWrite(h) == DaoInsertApply(h.type, h.arg, h.before)

\* The record the store d holds for a partition, as a sequence of at most one.
StoredPartition(d, table_id, desc) ==
  SelectSeq(d.partition_info,
    LAMBDA r : r.table_id = table_id /\ r.partition_desc = desc)

IsPrefix(s, u) == Len(s) <= Len(u) /\ SubSeq(u, 1, Len(s)) = s

\* C3 (as claimed): in every execution, the write of a successful Append/Merge
\* commit_data leaves each partition it lists, if stored before, with the stored
\* version plus one and the stored snapshot followed by the entry's commit
\* identifiers, and leaves every stored snapshot a prefix of its successor.
C3_VersionMonotonic ==
  \A t \in Tasks :
    FoldDone(t) =>
      \A i \in Writes(t) :
           LET h == hist[t][i]
           IN /\ \A k \in DOMAIN loc[t].meta.list_partition :
                   LET e == loc[t].meta.list_partition[k]
                       b == StoredPartition(h.before, loc[t].meta.table_info.table_id,
                                            e.partition_desc)
                       a == StoredPartition(AfterWrite(h), loc[t].meta.table_info.table_id,
                                            e.partition_desc)
                   IN b # <<>> =>
                        /\ a # <<>>
                        /\ a[1].version = b[1].version + 1
                        /\ a[1].snapshot = b[1].snapshot \o e.snapshot
              /\ \A k \in DOMAIN h.before.partition_info :
                   LET q == h.before.partition_info[k]
                       a == StoredPartition(AfterWrite(h), q.table_id, q.partition_desc)
                   IN a # <<>> /\ IsPrefix(q.snapshot, a[1].snapshot)

\* C3 (amended): the write of a successful Append/Merge commit_data leaves each
\* partition it lists with the version plus one and the snapshot extended by the
\* entry's commit identifiers, provided the record stored at the write is the one
\* the commit read; a partition neither read nor stored starts at version 0 with
\* the entry's snapshot; the partitions it does not list keep their records; and
\* a successful commit that wrote nothing ran with max_retry = 0.
C3_VersionMonotonicUndisturbed ==
  \A t \in Tasks :
    FoldDone(t) =>
      /\ Writes(t) = {} =>
           /\ max_retry = 0
           /\ \A i \in DOMAIN hist[t] : hist[t][i].kind # "insert"
      /\ \A i \in Writes(t) :
           LET h == hist[t][i]
               tid == loc[t].meta.table_info.table_id
           IN /\ \A k \in DOMAIN loc[t].meta.list_partition :
                   LET e == loc[t].meta.list_partition[k]
                       b == StoredPartition(h.before, tid, e.partition_desc)
                       a == StoredPartition(AfterWrite(h), tid, e.partition_desc)
                       cur == CurMapGet(loc[t].cur, e.partition_desc)
                   IN /\ (b # <<>> /\ cur.some /\ cur.rec = b) =>
                           /\ a # <<>>
                           /\ a[1].version = b[1].version + 1
                           /\ a[1].snapshot = b[1].snapshot \o e.snapshot
                           /\ IsPrefix(b[1].snapshot, a[1].snapshot)
                      /\ (b = <<>> /\ ~cur.some) =>
                           /\ a # <<>>
                           /\ a[1].version = 0
                           /\ a[1].snapshot = e.snapshot
              /\ \A k \in DOMAIN h.before.partition_info :
                   LET q == h.before.partition_info[k]
                   IN (\A j \in DOMAIN loc[t].meta.list_partition :
                         loc[t].meta.list_partition[j].partition_desc # q.partition_desc)
                        => StoredPartition(AfterWrite(h), q.table_id, q.partition_desc) = <<q>>

\* C3 witness: a commit read a partition another task's commit had already moved
\* to version 1, and wrote it undisturbed as version 2.
C3_Witness ==
  \E t \in Tasks :
    /\ FoldDone(t)
    /\ \E u \in Tasks \ {t} : FoldDone(u)
    /\ \E i \in Writes(t) : \E k \in DOMAIN loc[t].meta.list_partition :
         LET e == loc[t].meta.list_partition[k]
             b == StoredPartition(hist[t][i].before, loc[t].meta.table_info.table_id,
                                  e.partition_desc)
             cur == CurMapGet(loc[t].cur, e.partition_desc)
         IN /\ b # <<>> /\ cur.some /\ cur.rec = b
            /\ b[1].version = 1
            /\ Len(e.snapshot) > 0

\* The DataCommitInfo arguments whose commit_op decodes to an operation that folds.
WellFormedIngest(d) ==
  CommitOpFromI32(d.commit_op).some /\ Folds(CommitOpFromI32(d.commit_op).op)

\* C11 (as claimed): every lookup operation returns a typed success or a typed
\* error, never an abort, get_table_info_by_table_id and
\* get_table_name_id_by_table_name on a query without rows included; and so does
\* commit_data_commit_info of a well-formed record whose table has no TableInfo.
\* Stated for the operations whose queries the DAO answered.
C11_NoAbort ==
  \A t \in Tasks :
    ( /\ hist[t] # <<>>
      /\ \A i \in DOMAIN hist[t] : hist[t][i].status = "Ok"
      /\ \/ \E op \in Lookups : Finished(t, op)
         \/ /\ Finished(t, "commit_data_commit_info")
            /\ WellFormedIngest(result[t].arg) ) =>
      result[t].ret.status \in {"Ok", "Err"}

\* The entries of t's commit for the partition desc, and the record it built.
EntryOf(t, desc) ==
  SelectSeq(loc[t].meta.list_partition, LAMBDA e : e.partition_desc = desc)

BuiltBy(t, desc) == SelectSeq(loc[t].new_list, LAMBDA r : r.partition_desc = desc)

\* Tasks t and u, on two client instances, both returned success from a commit
\* that folds into partition desc, and both had read the same stored record of it.
BothReadSame(t, u, desc) ==
  /\ t # u /\ clientOf[t] # clientOf[u]
  /\ FoldDone(t) /\ FoldDone(u)
  /\ Writes(t) # {} /\ Writes(u) # {}
  /\ EntryOf(t, desc) # <<>> /\ EntryOf(u, desc) # <<>>
  /\ CurMapGet(loc[t].cur, desc).some
  /\ CurMapGet(loc[t].cur, desc) = CurMapGet(loc[u].cur, desc)

\* Task u's write found the record of t's commit stored and replaced it.
WroteOver(t, u, desc) ==
  \E i \in Writes(u) :
    /\ StoredPartition(hist[u][i].before, loc[u].meta.table_info.table_id, desc)
         = BuiltBy(t, desc)
    /\ StoredPartition(AfterWrite(hist[u][i]), loc[u].meta.table_info.table_id, desc)
         = BuiltBy(u, desc)

\* C12: when two commits on two client instances both read the same record of a
\* partition before either wrote, both return success, one write replaces the
\* other's, and the record left has the read version plus one only and the read
\* snapshot followed by the entries of the later writer alone.
C12_LostUpdate ==
  \A t \in Tasks : \A u \in Tasks : \A desc \in {"p=1", "p=2"} :
    BothReadSame(t, u, desc) =>
      LET read == CurMapGet(loc[t].cur, desc).rec[1]
      IN /\ result[t].ret.status = "Ok" /\ result[u].ret.status = "Ok"
         /\ BuiltBy(t, desc)[1].version = read.version + 1
         /\ BuiltBy(u, desc)[1].version = read.version + 1
         /\ WroteOver(t, u, desc) \/ WroteOver(u, t, desc)
         /\ WroteOver(t, u, desc) =>
              BuiltBy(u, desc)[1].snapshot = read.snapshot \o EntryOf(u, desc)[1].snapshot

\* C12 witness: both commits succeeded on one read state, and the stored record
\* is at the read version plus one and lacks a commit identifier of the first writer.
C12_Witness ==
  \E t \in Tasks : \E u \in Tasks : \E desc \in {"p=1", "p=2"} :
    /\ BothReadSame(t, u, desc)
    /\ WroteOver(t, u, desc)
    /\ LET read == CurMapGet(loc[t].cur, desc).rec[1]
           now == StoredPartition(db, loc[u].meta.table_info.table_id, desc)
       IN /\ now # <<>>
          /\ now[1].version = read.version + 1
          /\ \E k \in DOMAIN EntryOf(t, desc)[1].snapshot :
               \A j \in DOMAIN now[1].snapshot :
                 now[1].snapshot[j] # EntryOf(t, desc)[1].snapshot[k]

\* The tasks with a DAO attempt in flight on client c.
InFlight(c) == {t \in Tasks : clientOf[t] = c /\ call[t].state = "have_both"}

\* C13: on every client instance at most one DAO attempt is in flight, and the
\* task whose attempt is in flight holds the connection lock and the
\* statement-cache lock of that instance; a task that took the connection lock
\* alone holds it.
C13_MutualExclusion ==
  \A c \in Clients :
    /\ Cardinality(InFlight(c)) <= 1
    /\ \A t \in InFlight(c) : clientLock[c] = t /\ preparedLock[c] = t
    /\ \A t \in Tasks :
         (clientOf[t] = c /\ call[t].state = "have_client") => clientLock[c] = t

\* C13 witness: on a shared client one task's retry attempt is in flight while the
\* other task stands before the connection lock.
C13_Witness ==
  \E t \in Tasks : \E u \in Tasks \ {t} :
    /\ clientOf[t] = clientOf[u]
    /\ t \in InFlight(clientOf[t])
    /\ call[t].times > 0
    /\ call[u].state = "start" /\ call[u].times < max_retry

\* C14: a task holds the locks of its client instance during a DAO attempt only:
\* not between the partition read and the partition write of commit_data, not
\* between two retry attempts, not before or after a call.
C14_LocksPerDaoCall ==
  \A t \in Tasks :
    call[t].state \notin {"have_client", "have_both"} =>
      /\ clientLock[clientOf[t]] # t
      /\ preparedLock[clientOf[t]] # t

\* C14 witness: on a shared client, task u wrote a partition after task t's
\* commit_data had read it and before t's own write.
C14_Witness ==
  \E t \in Tasks : \E u \in Tasks \ {t} : \E desc \in {"p=1", "p=2"} :
    /\ clientOf[t] = clientOf[u]
    /\ pc[t] = "cd_write" /\ call[t].state = "start"
    /\ \A i \in DOMAIN hist[t] : hist[t][i].kind = "query"
    /\ CurMapGet(loc[t].cur, desc).some
    /\ \E i \in Writes(u) :
         /\ StoredPartition(hist[u][i].before, "t1", desc) = CurMapGet(loc[t].cur, desc).rec
         /\ StoredPartition(db, "t1", desc) # CurMapGet(loc[t].cur, desc).rec
         /\ StoredPartition(db, "t1", desc) =
              StoredPartition(AfterWrite(hist[u][i]), "t1", desc)

\* Task t finished, with success or an error, an operation that ran the folding
\* arm of commit_data.
FoldRan(t) ==
  /\ pc[t] = "idle"
  /\ result[t].op \in {"commit_data", "commit_data_commit_info"}
  /\ Folds(loc[t].cop)
  /\ loc[t].new_list # <<>>

\* The insert attempts commit_data made: those after the partition read.
FoldInserts(t) ==
  {i \in DOMAIN hist[t] :
     /\ hist[t][i].kind = "insert"
     /\ \E j \in 1..(i - 1) : hist[t][j].type = "ListPartitionDescByTableIdAndParList"}

\* Every partition of t's commit is stored in d as the commit built it.
AllReflect(t, d) ==
  \A k \in DOMAIN loc[t].new_list :
    StoredPartition(d, loc[t].new_list[k].table_id, loc[t].new_list[k].partition_desc)
      = <<loc[t].new_list[k]>>

\* Every partition of t's commit is stored in d as in the store d0.
NoneReflects(t, d, d0) ==
  \A k \in DOMAIN loc[t].new_list :
    StoredPartition(d, loc[t].new_list[k].table_id, loc[t].new_list[k].partition_desc)
      = StoredPartition(d0, loc[t].new_list[k].table_id, loc[t].new_list[k].partition_desc)

\* C15 (as claimed): a successful Append/Merge commit_data persists its records
\* through exactly one transactional insert that carries the full list; it makes
\* no other insert; and when it has returned, with success or an error, either
\* every partition of the commit is stored as built or none has changed.
C15_SingleAtomicWrite ==
  \A t \in Tasks :
    FoldRan(t) =>
      /\ \A i \in FoldInserts(t) :
           /\ hist[t][i].type = "TransactionInsertPartitionInfo"
           /\ hist[t][i].arg.partition_info = loc[t].new_list
      /\ Len(loc[t].new_list) = Len(loc[t].meta.list_partition)
      /\ result[t].ret.status = "Ok" =>
           /\ Cardinality(Writes(t)) = 1
           /\ Alone(t) => AllReflect(t, db)
      /\ (Alone(t) /\ result[t].ret.status = "Err") => NoneReflects(t, db, pre[t])

\* Task t's commit_data has built its record list in the folding arm.
Built(t) == Folds(loc[t].cop) /\ loc[t].new_list # <<>>

\* The records of the fetched current map for the partition desc.
Fetched(t, desc) == SelectSeq(loc[t].cur, LAMBDA r : r.partition_desc = desc)

OpCode(cop) == IF cop = "AppendCommit" THEN 1 ELSE 2

\* C16: for an Append/Merge commit_data, every incoming entry whose descriptor has
\* no record in the fetched current map produces a record with version 0, the
\* table id of the MetaInfo's TableInfo, the entry's descriptor, snapshot and
\* expression, and commit_op as the last commit operation.
C16_FirstCommit ==
  \A t \in Tasks :
    Built(t) =>
      /\ Len(loc[t].new_list) = Len(loc[t].meta.list_partition)
      /\ \A k \in DOMAIN loc[t].meta.list_partition :
           LET e == loc[t].meta.list_partition[k]
               n == loc[t].new_list[k]
           IN Fetched(t, e.partition_desc) = <<>> =>
                /\ n.version = 0
                /\ n.table_id = loc[t].meta.table_info.table_id
                /\ n.partition_desc = e.partition_desc
                /\ n.snapshot = e.snapshot
                /\ n.commit_op = OpCode(loc[t].cop)
                /\ n.expression = e.expression

\* C16 witness: a MergeCommit of two entries, the first with a stored record and
\* the second, of two commit identifiers, without one.
C16_Witness ==
  \E t \in Tasks :
    /\ Built(t) /\ loc[t].cop = "MergeCommit"
    /\ Len(loc[t].meta.list_partition) = 2
    /\ Fetched(t, loc[t].meta.list_partition[1].partition_desc) # <<>>
    /\ Fetched(t, loc[t].meta.list_partition[2].partition_desc) = <<>>
    /\ Len(loc[t].meta.list_partition[2].snapshot) = 2

\* C17: for an Append/Merge commit_data, every incoming entry whose descriptor has
\* a record in the fetched current map produces that record with the snapshot
\* followed by the entry's commit identifiers, in order and with duplicates kept,
\* the version plus one, commit_op as the last commit operation, the entry's
\* expression and the domain recomputed; table id and descriptor are kept.
C17_MergeRecord ==
  \A t \in Tasks :
    Built(t) =>
      \A k \in DOMAIN loc[t].meta.list_partition :
        LET e == loc[t].meta.list_partition[k]
            n == loc[t].new_list[k]
            hits == Fetched(t, e.partition_desc)
        IN hits # <<>> =>
             LET r == hits[Len(hits)]
             IN /\ n.snapshot = r.snapshot \o e.snapshot
                /\ Len(n.snapshot) = Len(r.snapshot) + Len(e.snapshot)
                /\ n.version = r.version + 1
                /\ n.commit_op = OpCode(loc[t].cop)
                /\ n.expression = e.expression
                /\ n.domain = "public"
                /\ n.table_id = r.table_id
                /\ n.partition_desc = r.partition_desc
                /\ DOMAIN n = DOMAIN r

\* C17 witness: the entry carries a commit identifier the stored snapshot already
\* holds, and an expression the stored record does not have.
C17_Witness ==
  \E t \in Tasks :
    /\ Built(t)
    /\ \E k \in DOMAIN loc[t].meta.list_partition :
         LET e == loc[t].meta.list_partition[k]
             hits == Fetched(t, e.partition_desc)
         IN /\ hits # <<>>
            /\ \E j \in DOMAIN hits[1].snapshot : hits[1].snapshot[j] = e.snapshot[1]
            /\ hits[1].version >= 1

\* Task t returned success from commit_data_commit_info of a record for whose key
\* its lookup found no DataCommitInfo stored.
NewIngest(t) ==
  /\ Finished(t, "commit_data_commit_info")
  /\ result[t].ret.status = "Ok"
  /\ LET as == CallAttempts(t, 1)
     IN /\ as # <<>>
        /\ as[Len(as)].status = "Ok"
        /\ RowsOf(as[Len(as)]).data_commit_info = <<>>

\* The applied inserts of the DataCommitInfo row by t's call.
RowInserts(t) ==
  {i \in DOMAIN hist[t] :
     hist[t][i].type = "InsertDataCommitInfo" /\ hist[t][i].status = "Ok"}

\* The snapshot the store d holds for the partition of the DataCommitInfo x.
SnapshotOf(x, d) ==
  LET r == StoredPartition(d, x.table_id, x.partition_desc)
  IN IF r = <<>> THEN <<>> ELSE r[1].snapshot

\* The call inserted the row once, leaving one row for the key, before its one
\* partition write, and that write extended the stored snapshot by the commit
\* identifier of x alone, as last entry.
IngestedOnce(t, x) ==
  /\ Cardinality(RowInserts(t)) = 1
  /\ Cardinality(Writes(t)) = 1
  /\ \A i \in RowInserts(t) : \A j \in Writes(t) :
       /\ i < j
       /\ hist[t][i].arg.data_commit_info = <<x>>
       /\ StoredFor(x, AfterWrite(hist[t][i])) = <<x>>
       /\ SnapshotOf(x, AfterWrite(hist[t][j])) =
            SnapshotOf(x, hist[t][j].before) \o <<x.commit_id>>

\* C18 (as claimed): a successful commit_data_commit_info(d), called when no
\* DataCommitInfo is stored for d's key, has inserted the row exactly once, before
\* the partition write, and the stored snapshot of the partition has grown by d's
\* commit identifier alone, appended last.
C18_NewCommitIngested ==
  \A t \in Tasks : NewIngest(t) => IngestedOnce(t, result[t].arg)

\* No other task stored a row for x's key or wrote x's partition between the steps
\* of t's call: the insert found no row for the key, and the write found the
\* partition as the call had read it.
Undisturbed(t, x) ==
  /\ \A i \in RowInserts(t) : StoredFor(x, hist[t][i].before) = <<>>
  /\ \A j \in Writes(t) :
       StoredPartition(hist[t][j].before, x.table_id, x.partition_desc)
         = Fetched(t, x.partition_desc)

\* C18 (amended): the same, provided no other task stored a row for d's key or
\* wrote d's partition between the steps of the call.
C18_NewCommitIngestedUndisturbed ==
  \A t \in Tasks :
    (NewIngest(t) /\ Undisturbed(t, result[t].arg)) => IngestedOnce(t, result[t].arg)

\* C18 witness: a new commit was ingested undisturbed into a partition that another
\* task's ingestion had created, the row insert succeeding or the other task
\* having finished first.
C18_Witness ==
  \E t \in Tasks :
    /\ NewIngest(t) /\ Undisturbed(t, result[t].arg)
    /\ \E u \in Tasks \ {t} : Finished(u, "commit_data_commit_info")
    /\ Len(SnapshotOf(result[t].arg, db)) >= 1
    /\ StoredFor(result[t].arg, db) # <<>>

\* The table ids, with namespace and domain, of a sequence of records.
TableKeys(records) ==
  {<<r.table_id, r.table_namespace, r.domain>> : r \in Range(records)}

\* C19 (as claimed): whenever no create_table call is under way, also after one
\* that returned an error part-way, a TablePathId or TableNameId record is stored
\* for a table id exactly if the TableInfo record is, with the same table id,
\* namespace and domain.
C19_IndicesWithTable ==
  (\A t \in Tasks : pc[t] \notin {"ct_path", "ct_name", "ct_info"}) =>
    /\ TableKeys(db.table_path_id) = TableKeys(db.table_info)
    /\ TableKeys(db.table_name_id) = TableKeys(db.table_info)

\* C20: when a DAO attempt of execute_query succeeds with an envelope that does
\* not decode, the call returns the decode error at once: no attempt follows it,
\* whatever number of attempts remains, and the operation returns that error.
C20_DecodeErrorNotRetried ==
  \A t \in Tasks : \A i \in DOMAIN hist[t] :
    hist[t][i].status = "Undecodable" =>
      /\ i = Len(hist[t])
      /\ hist[t][i].kind = "query"
      /\ call[t].no = hist[t][i].no
      /\ call[t].state \in {"returned", "none"}
      /\ call[t].state = "returned" =>
           /\ call[t].ret.status = "Err"
           /\ call[t].ret.err.kind = "DecodeError"
      /\ call[t].state = "none" =>
           /\ result[t].ret.status = "Err"
           /\ result[t].ret.err.kind = "DecodeError"

\* C20 witness: the first of two allowed attempts answered with a malformed
\* envelope, and the operation has returned.
C20_Witness ==
  \E t \in Tasks :
    /\ max_retry = 2
    /\ pc[t] = "idle" /\ result[t].op = "get_data_files_by_table_name"
    /\ Len(hist[t]) = 3
    /\ hist[t][3].status = "Undecodable"
    /\ Len(CallAttempts(t, hist[t][3].no)) = 1

\* The lookup of the call answered, and its first row is a record not committed.
UncommittedReplay(t) ==
  LET as == CallAttempts(t, 1)
  IN /\ Finished(t, "commit_data_commit_info")
     /\ as # <<>>
     /\ as[Len(as)].status = "Ok"
     /\ RowsOf(as[Len(as)]).data_commit_info # <<>>
     /\ ~RowsOf(as[Len(as)]).data_commit_info[1].committed

\* The call made no insert of a DataCommitInfo row and went on after the lookup:
\* its next DAO call is the table lookup that precedes commit_data, and a
\* successful call made the partition read and one partition write.
ReplayProceeds(t) ==
  /\ \A i \in DOMAIN hist[t] : hist[t][i].type # "InsertDataCommitInfo"
  /\ CallAttempts(t, 2) # <<>>
  /\ CallAttempts(t, 2)[1].type = "SelectTableInfoByTableId"
  /\ result[t].ret.status = "Ok" =>
       /\ loc[t].meta = IngestMetaInfo(result[t].arg, TheTable)
       /\ \E i \in DOMAIN hist[t] :
            hist[t][i].type = "ListPartitionDescByTableIdAndParList"
       /\ Cardinality(Writes(t)) = 1

\* The partition write h of a call for the DataCommitInfo x raised the stored
\* version by one and appended x's commit identifier to the stored snapshot.
FoldedAgain(h, x) ==
  LET b == StoredPartition(h.before, x.table_id, x.partition_desc)
      a == StoredPartition(AfterWrite(h), x.table_id, x.partition_desc)
  IN /\ b # <<>> /\ a # <<>>
     /\ a[1].version = b[1].version + 1
     /\ a[1].snapshot = b[1].snapshot \o <<x.commit_id>>

\* The partition write h created the partition of x: version 0, and a snapshot of
\* x's commit identifier alone.
FoldedFirst(h, x) ==
  LET b == StoredPartition(h.before, x.table_id, x.partition_desc)
      a == StoredPartition(AfterWrite(h), x.table_id, x.partition_desc)
  IN /\ b = <<>> /\ a # <<>>
     /\ a[1].version = 0
     /\ a[1].snapshot = <<x.commit_id>>

\* C21 (as claimed): when the lookup of commit_data_commit_info returns a record
\* with committed = false, the row is not inserted again, the call proceeds to
\* commit_data, and a successful call has incremented the partition's version and
\* appended the commit identifier to its snapshot.
C21_UncommittedReplayFolds ==
  \A t \in Tasks :
    UncommittedReplay(t) =>
      /\ ReplayProceeds(t)
      /\ result[t].ret.status = "Ok" =>
           \A j \in Writes(t) : FoldedAgain(hist[t][j], result[t].arg)

\* C21 (amended): the same, the version incremented and the commit identifier
\* appended when a record of the partition is stored; when none is stored, as after
\* a call that inserted the row and failed before its partition write, the
\* partition is created at version 0 with the commit identifier as its snapshot.
C21_UncommittedReplayFoldsOrCreates ==
  \A t \in Tasks :
    UncommittedReplay(t) =>
      /\ ReplayProceeds(t)
      /\ result[t].ret.status = "Ok" =>
           \A j \in Writes(t) :
             \/ FoldedAgain(hist[t][j], result[t].arg)
             \/ FoldedFirst(hist[t][j], result[t].arg)

\* C21 witness: the replay found the partition holding the commit identifier at
\* version 0 and left it holding the identifier twice.
C21_Witness ==
  \E t \in Tasks :
    /\ UncommittedReplay(t)
    /\ result[t].ret.status = "Ok"
    /\ \E j \in Writes(t) : FoldedAgain(hist[t][j], result[t].arg)
    /\ StoredPartition(db, "t1", result[t].arg.partition_desc)[1].version = 1
    /\ StoredPartition(db, "t1", result[t].arg.partition_desc)[1].snapshot =
         <<result[t].arg.commit_id, result[t].arg.commit_id>>

\* The attempts of t's operation at the batched read of current partition state.
PartitionReads(t) ==
  {i \in DOMAIN hist[t] : hist[t][i].type = "ListPartitionDescByTableIdAndParList"}

\* The attempts of t's operation at the transactional partition insert.
PartitionInserts(t) ==
  {i \in DOMAIN hist[t] : hist[t][i].type = "TransactionInsertPartitionInfo"}

\* Task t's operation has reached commit_data.
InCommitData(t) ==
  /\ loc[t].op \in {"commit_data", "commit_data_commit_info"}
  /\ PartitionReads(t) # {}

\* C22: when the batched read of commit_data has failed on its last allowed
\* attempt, commit_data returns that error, has issued no transactional insert,
\* and has left every stored PartitionInfo as it was; and every attempt at the
\* transactional insert, retries included, carries the one record list computed
\* from the single successful read, which precedes them all.
C22_NoWriteOnFailedRead ==
  \A t \in Tasks :
    InCommitData(t) =>
      /\ ( /\ Finished(t, loc[t].op)
           /\ hist[t][Len(hist[t])].type = "ListPartitionDescByTableIdAndParList"
           /\ hist[t][Len(hist[t])].status = "Err" ) =>
             /\ result[t].ret = Err(hist[t][Len(hist[t])].err)
             /\ Cardinality(PartitionReads(t)) = max_retry
             /\ PartitionInserts(t) = {}
             /\ Alone(t) => db.partition_info = pre[t].partition_info
      /\ PartitionInserts(t) # {} =>
           \E r \in PartitionReads(t) :
             /\ hist[t][r].status = "Ok"
             /\ \A q \in PartitionReads(t) : q <= r /\ (q < r => hist[t][q].status = "Err")
             /\ loc[t].cur = RowsOf(hist[t][r]).partition_info
             /\ loc[t].new_list = NewPartitionList(loc[t].meta, loc[t].cur, loc[t].cop)
             /\ \A i \in PartitionInserts(t) :
                  /\ r < i
                  /\ hist[t][i].arg = [EmptyWrapper EXCEPT !.partition_info = loc[t].new_list]
      /\ ( /\ Finished(t, loc[t].op)
           /\ PartitionInserts(t) # {}
           /\ \A i \in PartitionInserts(t) : hist[t][i].status = "Err" ) =>
             /\ Cardinality(PartitionInserts(t)) = max_retry
             /\ result[t].ret = Err(hist[t][Len(hist[t])].err)

\* C22 witness: with two attempts allowed, a commit_data whose read failed twice
\* left the stored partitions alone, and the next commit_data sent one record list
\* twice, the store rejecting it both times.
C22_Witness ==
  \E t \in Tasks :
    /\ max_retry = 2
    /\ Finished(t, "commit_data") /\ InCommitData(t)
    /\ Cardinality(PartitionInserts(t)) = 2
    /\ \A i \in PartitionInserts(t) : hist[t][i].status = "Err"
    /\ prev[t].op = "commit_data"
    /\ prev[t].ret.status = "Err"
    /\ prev[t].ret.err.kind = "DaoError" /\ prev[t].ret.err.at = 2
    /\ prev[t].db.partition_info = db.partition_info
    /\ db.partition_info # <<>>

\* The snapshot and the version a record of the commit starts from, for the
\* partition desc: those of the fetched record, or the empty snapshot and -1.
BaseOf(t, desc) ==
  LET hits == Fetched(t, desc)
  IN IF hits = <<>> THEN [snapshot |-> <<>>, version |-> -1]
     ELSE [snapshot |-> hits[Len(hits)].snapshot, version |-> hits[Len(hits)].version]

\* C23: for an Append/Merge commit_data, the record list handed to the
\* transactional insert has one record per entry of list_partition, in the
\* entries' order; two entries naming one partition produce records of one
\* version, the fetched version plus one or 0, and each record's snapshot is the
\* fetched snapshot followed by the commit identifiers of its own entry alone.
C23_OneRecordPerEntry ==
  \A t \in Tasks :
    Built(t) =>
      /\ Len(loc[t].new_list) = Len(loc[t].meta.list_partition)
      /\ \A k \in DOMAIN loc[t].meta.list_partition :
           LET e == loc[t].meta.list_partition[k]
               n == loc[t].new_list[k]
               base == BaseOf(t, e.partition_desc)
           IN /\ n.partition_desc = e.partition_desc
              /\ n.version = base.version + 1
              /\ n.snapshot = base.snapshot \o e.snapshot
              /\ \A j \in DOMAIN loc[t].meta.list_partition :
                   loc[t].meta.list_partition[j].partition_desc = e.partition_desc =>
                     loc[t].new_list[j].version = n.version
      /\ \A i \in PartitionInserts(t) :
           hist[t][i].arg.partition_info = loc[t].new_list

\* C23 witness: a commit with two entries for one stored partition, each bringing
\* another commit identifier, has sent its list of two records to the DAO.
C23_Witness ==
  \E t \in Tasks :
    /\ Built(t)
    /\ PartitionInserts(t) # {}
    /\ Len(loc[t].meta.list_partition) = 2
    /\ loc[t].meta.list_partition[1].partition_desc =
         loc[t].meta.list_partition[2].partition_desc
    /\ loc[t].meta.list_partition[1].snapshot # loc[t].meta.list_partition[2].snapshot
    /\ Fetched(t, loc[t].meta.list_partition[1].partition_desc) # <<>>
    /\ loc[t].new_list[1].version = 1 /\ loc[t].new_list[2].version = 1
    /\ loc[t].new_list[1].snapshot # loc[t].new_list[2].snapshot

\* Task t is inside an execute_insert / execute_query call that has not returned.
InCall(t) == call[t].state \in {"start", "have_client", "have_both"}

\* Task t waits for the connection lock, or for the statement-cache lock.
WaitsClient(t) ==
  \/ call[t].state = "start" /\ call[t].times < max_retry
  \/ pc[t] = "mc_wait"

WaitsPrepared(t) == call[t].state = "have_client"

\* The locks task t holds, as its position in the code has it.
HoldsClient(t) == call[t].state \in {"have_client", "have_both"} \/ pc[t] = "mc_run"

HoldsPrepared(t) == call[t].state = "have_both"

\* The statement-cache lock is held only by the holder of the connection lock, and
\* each lock is held exactly by the task inside the attempt that took it: nothing
\* is held after an attempt has succeeded, failed or gone to its retry.
LockDiscipline ==
  /\ \A c \in Clients :
       preparedLock[c] # NoTask => clientLock[c] = preparedLock[c]
  /\ \A t \in Tasks :
       /\ HoldsClient(t) <=> clientLock[clientOf[t]] = t
       /\ HoldsPrepared(t) <=> preparedLock[clientOf[t]] = t

\* When a task waits for a lock, some task can take a step: a waiter whose lock is
\* free, or a holder whose DAO call returns.
NoLockDeadlock ==
  (\E t \in Tasks : WaitsClient(t) \/ WaitsPrepared(t)) =>
    \E u \in Tasks :
      \/ WaitsClient(u) /\ clientLock[clientOf[u]] = NoTask
      \/ WaitsPrepared(u) /\ preparedLock[clientOf[u]] = NoTask
      \/ HoldsPrepared(u)
      \/ pc[u] = "mc_run"

\* C24: tasks sharing one client take the connection lock before the
\* statement-cache lock, meta_cleanup the connection lock alone; both are released
\* when the DAO attempt ends; no reachable state is a deadlock; a call makes at
\* most max_retry attempts; and, every DAO call returning and the locks being fair,
\* every execute_insert / execute_query call under way eventually returns.
C24_NoDeadlockAndCompletion ==
  /\ [](LockDiscipline /\ NoLockDeadlock)
  /\ [](\A t \in Tasks : Len(CallAttempts(t, call[t].no)) <= max_retry)
  /\ \A t \in Tasks : InCall(t) ~> (call[t].state = "returned")

\* C24 witness: one task waits for the connection while the other, on the retry
\* of its call on the same client, holds both locks.
C24_Witness ==
  \E t \in Tasks : \E u \in Tasks \ {t} :
    /\ clientOf[t] = clientOf[u]
    /\ call[t].state = "start" /\ call[t].times < max_retry
    /\ call[u].state = "have_both" /\ call[u].times = 1

\* The last export call reported failure exactly when the given length differed
\* from the held result's length, then writing nothing and leaving the result as
\* it was; otherwise it wrote the result and one terminator byte to the
\* destination and appended that byte to the held result.
ExportOutcome ==
  /\ ffi.cb = "false" <=> (ffi.len < 0 \/ Len(ffi.before) # ffi.len)
  /\ ffi.cb = "false" => ffi.bytes = ffi.before /\ ffi.dst = ffi.dstBefore
  /\ ffi.cb = "true" =>
       /\ ffi.bytes = ffi.before \o <<0>>
       /\ Len(ffi.bytes) = ffi.len + 1
       /\ \A i \in 1..DstCap :
            ffi.dst[i] = IF i <= ffi.len + 1 THEN ffi.bytes[i] ELSE ffi.dstBefore[i]

\* C25 (as claimed): a handle is exported at most once: export_bytes_result
\* fails, writing nothing, whenever the given length differs from the result's
\* current length, a successful export appends one terminator byte to the held
\* result, and no handle has seen two successful exports.
C25_ExportAtMostOnce ==
  ffi.cb # "none" => ExportOutcome /\ Len(ffi.oks) <= 1

\* C25 (amended): export_bytes_result fails, writing nothing, whenever the given
\* length differs from the result's current length; a successful export appends
\* one terminator byte to the held result; so no two successful exports on one
\* handle were given the same length: each later one was given the length of the
\* one before plus one.
C25_ExportOncePerLength ==
  ffi.cb # "none" =>
    /\ ExportOutcome
    /\ \A i, j \in DOMAIN ffi.oks : i # j => ffi.oks[i] # ffi.oks[j]
    /\ \A i \in DOMAIN ffi.oks : ffi.oks[i] = Len(ffi.bytes) - Len(ffi.oks) + i - 1

\* C25 witness: a result of two bytes was exported with length 2, and the second
\* export with length 2 has reported the mismatch, the destination keeping the
\* three bytes of the first.
C25_Witness ==
  /\ ffi.made /\ ffi.told = 2
  /\ ffi.calls = 2 /\ ffi.oks = <<2>>
  /\ ffi.cb = "false" /\ ffi.len = 2
  /\ ffi.bytes = <<7, 7, 0>>
  /\ ffi.dst[1] = 7 /\ ffi.dst[2] = 7 /\ ffi.dst[3] = 0 /\ ffi.dst[4] = 255

====
